---- MODULE Spec2Model ----
(***************************************************************************)
(* Model of the multi-agent orchestrator: the short-term / long-term       *)
(* memory stores, the session-id generation of the entry points, the       *)
(* keyword router and the routing policies, the legacy supervisor          *)
(* (langgraph/supervisor.py) and the plan/execute supervisor graph         *)
(* (langgraph/supervisor/graph.py).                                        *)
(*                                                                         *)
(* Python dictionaries are functions whose DOMAIN is the set of keys       *)
(* present.  Python lists are sequences.  A list that is shared by         *)
(* reference lives in `heap` and is named by its object id.                *)
(***************************************************************************)
EXTENDS Integers, Sequences, FiniteSets, TLC

VARIABLES
    now,          \* wall clock, in seconds (datetime.utcnow / time.time)
    ticks,        \* number of clock advances taken so far
    memory,       \* ShortTermMemory.memory: session -> key -> MemoryEntry
    lt_memory,    \* LongTermMemory.memory: key -> value
    heap,         \* list objects shared by reference: object id -> sequence
    ret,          \* result of the last memory read (retrieve / get_all)
    pc,           \* position of the request in flight
    state,        \* SupervisorState of the request in flight (graph)
    env,          \* what the external services did in the last step
    loc,          \* locals of LangGraphSupervisor.process_request in flight
    states,       \* StateManager.states: session -> tracked AgentState
    issued,       \* session ids handed out by the entry points so far
    pol,          \* last call of a routing policy / router and its result
    settings,     \* settings.snowflake: the configured agent object names
    ttl_arg,      \* history variable: the ttl argument each entry was stored with
    core          \* AWS Agent Core side: metrics counters, traces, requests in flight

vars == <<now, ticks, memory, lt_memory, heap, ret, pc, state, env, loc,
          states, issued, pol, settings, ttl_arg, core>>

-----------------------------------------------------------------------------
(* Bounds of the model.                                                    *)

MaxTicks == 2
MaxTtlArg == 2
MaxArrivals == 3
MaxSteps == 2
MaxAttempts == 3

(* Program constants.                                                      *)

default_ttl == 3600
NoneTTL == -1
max_history == 30
\* Scores and confidences are held as whole multiples of 1/300, so that the
\* router's matches / 12 * 2.0 and matches / 10 * 2.0 are exact: 1.0 is 300.
One == 300
Tenths(n) == (n * One) \div 10
executor_confidence == Tenths(7)
pattern_threshold == Tenths(8)

-----------------------------------------------------------------------------
(* Clock.  Time passes in steps of d seconds.                              *)

\* one second, or one default TTL
TickJumps == {1, default_ttl}

\* `ret` when the last step was no memory read
NoRead == [op |-> "none"]

Tick(d) ==
    /\ ticks < MaxTicks
    /\ now' = now + d
    /\ ticks' = ticks + 1
    /\ ret' = NoRead
    /\ UNCHANGED <<memory, lt_memory, heap, pc, state, env, loc,
                   states, issued, pol, settings, ttl_arg, core>>

-----------------------------------------------------------------------------
(* ShortTermMemory (langgraph/memory/short_term.py).                       *)

NoBucket == [k \in {} |-> 0]

HasBucket(mem, s) == s \in DOMAIN mem

HasKey(mem, s, k) == HasBucket(mem, s) /\ k \in DOMAIN mem[s]

\* MemoryEntry(key, value, ttl) with timestamp = utcnow()
MemoryEntry(v, ttl, t) == [value |-> v, timestamp |-> t, ttl |-> ttl]

\* `ttl or self.default_ttl`: None and 0 are both falsy
EffectiveTtl(ttl) == IF ttl = NoneTTL \/ ttl = 0 THEN default_ttl ELSE ttl

\* `if entry.ttl: age = now - timestamp; if age > entry.ttl`
ExpiredGE(e, t) == e.ttl # NoneTTL /\ e.ttl # 0 /\ (t - e.timestamp) >= e.ttl
Expired(e, t) == e.ttl # NoneTTL /\ e.ttl # 0 /\ (t - e.timestamp) > e.ttl

\* self.memory[session_id][key] = entry, creating the bucket when missing
store(mem, s, k, v, ttl, t) ==
    LET bucket == IF HasBucket(mem, s) THEN mem[s] ELSE NoBucket
        entry  == MemoryEntry(v, EffectiveTtl(ttl), t)
        nb     == [x \in (DOMAIN bucket) \cup {k} |->
                      IF x = k THEN entry ELSE bucket[x]]
    IN  [x \in (DOMAIN mem) \cup {s} |-> IF x = s THEN nb ELSE mem[x]]

\* del self.memory[session_id][key]
DelKey(mem, s, k) ==
    [x \in DOMAIN mem |->
        IF x = s THEN [y \in (DOMAIN mem[s]) \ {k} |-> mem[s][y]] ELSE mem[x]]

\* retrieve(...) returns a value (not None)
retrieve_found(mem, s, k, t) == HasKey(mem, s, k) /\ ~Expired(mem[s][k], t)

\* the memory after retrieve: an expired entry is deleted on the read
retrieve_mem(mem, s, k, t) ==
    IF HasKey(mem, s, k) /\ Expired(mem[s][k], t) THEN DelKey(mem, s, k) ELSE mem

\* _clean_expired(session_id)
clean_expired(mem, s, t) ==
    IF ~HasBucket(mem, s) THEN mem
    ELSE [x \in DOMAIN mem |->
            IF x = s
            THEN [y \in {z \in DOMAIN mem[s] : ~Expired(mem[s][z], t)} |-> mem[s][y]]
            ELSE mem[x]]

\* get_all(session_id): the key -> value mapping left after the purge
get_all(mem, s, t) ==
    IF ~HasBucket(mem, s) THEN NoBucket
    ELSE LET m == clean_expired(mem, s, t)
         IN  [y \in DOMAIN m[s] |-> m[s][y].value]

\* clear(session_id)
clear(mem, s) == [x \in (DOMAIN mem) \ {s} |-> mem[x]]

-----------------------------------------------------------------------------
(* The memory store on its own: callers store, read and clear entries of   *)
(* one session while the clock advances.                                   *)

MemSession == "s1"
MemKeys == {"k1", "k2"}
MemValues == {"v1", "v2"}
TtlArgs == {NoneTTL} \cup (0 .. MaxTtlArg)

Idle == [node |-> "idle"]

\* settings.snowflake with every agent object name set
AllConfigured ==
    [cortex_agent_name |-> "CORTEX_AGENT",
     cortex_agent_name_analyst |-> "ANALYST_AGENT",
     cortex_agent_name_search |-> "SEARCH_AGENT",
     cortex_agent_name_combined |-> "COMBINED_AGENT"]

MemInit ==
    /\ now = 0 /\ ticks = 0
    /\ memory = NoBucket
    /\ ttl_arg = NoBucket /\ core = Idle
    /\ lt_memory = NoBucket
    /\ heap = <<>>
    /\ ret = NoRead
    /\ pc = "idle" /\ state = Idle /\ env = Idle /\ loc = Idle
    /\ states = NoBucket /\ issued = <<>> /\ pol = Idle
    /\ settings = AllConfigured

MemFrame == UNCHANGED <<now, ticks, lt_memory, heap, pc, state, env, loc,
                        states, issued, pol, settings, core>>

MemStore(k, v, ttl) ==
    /\ memory' = store(memory, MemSession, k, v, ttl, now)
    /\ ttl_arg' = [x \in (DOMAIN ttl_arg) \cup {k} |->
                      IF x = k THEN ttl ELSE ttl_arg[x]]
    /\ ret' = NoRead
    /\ MemFrame

MemRetrieve(k) ==
    /\ memory' = retrieve_mem(memory, MemSession, k, now)
    /\ ret' = IF retrieve_found(memory, MemSession, k, now)
              THEN [op |-> "retrieve", key |-> k, found |-> TRUE,
                    value |-> memory[MemSession][k].value]
              ELSE [op |-> "retrieve", key |-> k, found |-> FALSE,
                    purged |-> HasKey(memory, MemSession, k)]
    /\ UNCHANGED ttl_arg
    /\ MemFrame

MemGetAll ==
    /\ memory' = clean_expired(memory, MemSession, now)
    /\ ret' = [op |-> "get_all", all |-> get_all(memory, MemSession, now)]
    /\ UNCHANGED ttl_arg
    /\ MemFrame

MemClear ==
    /\ memory' = clear(memory, MemSession)
    /\ ttl_arg' = NoBucket
    /\ ret' = NoRead
    /\ MemFrame

MemNext ==
    \/ \E k \in MemKeys, v \in MemValues, ttl \in TtlArgs : MemStore(k, v, ttl)
    \/ \E k \in MemKeys : MemRetrieve(k)
    \/ MemGetAll
    \/ MemClear
    \/ \E d \in TickJumps : Tick(d)

SpecMem == MemInit /\ [][MemNext]_vars

\* What a read step (ret' names it) must do with the entry under key k,
\* present before the step, when its time-to-live is taken to be t.
ReadHonoursTtl(k, t) ==
    LET e   == memory[MemSession][k]
        age == now - e.timestamp
    IN  /\ (ret'.op = "retrieve" /\ ret'.key = k) =>
              IF age > t
              THEN ~ret'.found /\ ~HasKey(memory', MemSession, k)
              ELSE ret'.found /\ ret'.value = e.value /\ memory' = memory
        /\ ret'.op = "get_all" =>
              IF age > t
              THEN k \notin DOMAIN ret'.all /\ ~HasKey(memory', MemSession, k)
              ELSE /\ k \in DOMAIN ret'.all /\ ret'.all[k] = e.value
                   /\ HasKey(memory', MemSession, k)
                   /\ memory'[MemSession][k] = e

-----------------------------------------------------------------------------
(* Session ids at the entry points.  MultiAgentOrchestrator.process_request *)
(* and the /supervisor/process endpoint both use the caller's session_id   *)
(* or, when none is supplied, f"session_{int(time.time() * 1000)}".  The   *)
(* id is chosen in the synchronous prefix of the call, before any await,   *)
(* so calls that overlap choose their ids one after another with whatever  *)
(* the clock reads at that moment.                                         *)

\* int(time.time() * 1000)
epoch_ms(t) == t * 1000

\* f"session_{...}"
generated_session_id(t) == [prefix |-> "session_", n |-> epoch_ms(t)]

\* session ids a caller supplies
SuppliedIds == {[prefix |-> "teams-", n |-> 1], [prefix |-> "teams-", n |-> 2]}

\* `request.session_id or f"session_..."`; every call without a session id
\* opens a new conversation
Arrive(entry, supplied, sid) ==
    /\ Len(issued) < MaxArrivals
    /\ issued' = Append(issued,
                     [entry |-> entry, supplied |-> supplied,
                      session_id |-> IF supplied THEN sid
                                     ELSE generated_session_id(now)])
    /\ ret' = NoRead
    /\ UNCHANGED <<now, ticks, memory, lt_memory, heap, pc, state, env, loc,
                   states, pol, settings, ttl_arg, core>>

OrchestratorArrive ==
    \/ \E sid \in SuppliedIds : Arrive("orchestrator", TRUE, sid)
    \/ Arrive("orchestrator", FALSE, generated_session_id(now))

SupervisorEndpointArrive ==
    \/ \E sid \in SuppliedIds : Arrive("supervisor", TRUE, sid)
    \/ Arrive("supervisor", FALSE, generated_session_id(now))

IdsNext ==
    \/ OrchestratorArrive
    \/ SupervisorEndpointArrive
    \/ \E d \in TickJumps : Tick(d)

SpecIds == MemInit /\ [][IdsNext]_vars

\* C6: two requests that arrive without a session_id never receive the same
\* generated session id (and so never share a short-term memory bucket).
C6_GeneratedIdsDistinct ==
    \A i, j \in 1 .. Len(issued) :
        (i # j /\ ~issued[i].supplied /\ ~issued[j].supplied)
            => issued[i].session_id # issued[j].session_id

-----------------------------------------------------------------------------
(* The plan/execute supervisor graph (langgraph/supervisor/graph.py).      *)
(* `pc` is the node that runs next; a node and the conditional edge that   *)
(* follows it are one step.  One request runs at a time, on GraphSession.  *)

GraphSession == "s1"
GraphQuery == "q"

\* str(step_index): the plan's keys are the step numbers as strings
StepKeys == <<"1", "2", "3", "4", "5", "6", "7", "8", "9">>
StepKey(n) == StepKeys[n]

\* the agent the planner assigns, and the one the executor may go to instead
PlanAgent == "ANALYST_AGENT"
GotoAgent == "SEARCH_AGENT"

\* a plan step {agent, action}; agent "" stands for a missing or empty agent
PlanBlocks == {[agent |-> a] : a \in {PlanAgent, ""}}

\* the plans the planner prompt asks for: steps "1" .. "N"
StepPlans ==
    UNION {[{StepKey(i) : i \in 1 .. n} -> PlanBlocks] : n \in 1 .. MaxSteps}

NoPlan == NoBucket

\* what planner_llm_client.complete + extract_json give plan_request
PlannerReplies ==
    {[kind |-> "error"], [kind |-> "not_mapping"]}
    \cup {[kind |-> "bare", plan |-> p] : p \in StepPlans \cup {NoPlan}}
    \cup {[kind |-> "wrapped", inner |-> "mapping", plan |-> p] : p \in StepPlans}
    \cup {[kind |-> "wrapped", inner |-> i, plan |-> NoPlan] :
              i \in {"empty", "null", "text"}}

\* plan = parsed.get("plan") if dict else None;
\* if not plan and isinstance(parsed, dict): plan = parsed
chosen_plan(r) ==
    IF r.kind = "bare" THEN r.plan
    ELSE IF r.inner = "mapping" THEN r.plan
    ELSE IF r.inner = "text" THEN NoPlan
    ELSE [k \in {"plan"} |-> [agent |-> ""]]

\* `not isinstance(plan, dict) or not plan` raises
plan_accepted(r) ==
    /\ r.kind \in {"bare", "wrapped"}
    /\ chosen_plan(r) # NoPlan

\* what the executor call gives execute_plan
ExecutorReplies ==
    {[kind |-> "error"]}
    \cup {[kind |-> "json", replan |-> b, goto |-> g] :
              b \in BOOLEAN, g \in {GotoAgent, ""}}

NoDecision == [present |-> FALSE]
NoQuery == [from |-> "query", step |-> 0]
NoEnv == [node |-> "none", planner |-> FALSE, executor |-> FALSE, calls |-> <<>>]

Message(role, content) == [role |-> role, content |-> content]

\* a stored conversation of n messages, user and assistant turns alternating
History(n) ==
    [i \in 1 .. n |-> Message(IF i % 2 = 1 THEN "user" ELSE "assistant", GraphQuery)]

\* messages[-max_history:]
window_head(msgs) ==
    IF Len(msgs) <= max_history THEN msgs ELSE SubSeq(msgs, 1, max_history)
Window(msgs) ==
    IF Len(msgs) <= max_history THEN msgs
    ELSE SubSeq(msgs, Len(msgs) - max_history + 1, Len(msgs))

\* the initial SupervisorState handed to the graph
InitialState ==
    [session_id |-> GraphSession, query |-> GraphQuery, messages |-> 0,
     status |-> "pending", current_step |-> "", error |-> "",
     routing_decision |-> NoDecision, agent_query |-> NoQuery,
     agent_responses |-> <<>>, final_response |-> <<>>,
     plan |-> NoPlan, plan_current_step |-> 0, replan_flag |-> FALSE,
     replan_attempts |-> [i \in 1 .. MaxSteps |-> 0]]

\* int(state.get("plan_current_step") or 1)
step_index(st) == IF st.plan_current_step = 0 THEN 1 ELSE st.plan_current_step

\* should_handle_error: the edge after plan_request .. combine_responses
should_handle_error_never(st, continue) == continue
should_handle_error(st, continue) ==
    IF st.status = "failed" THEN "handle_error" ELSE continue

GraphFrame == UNCHANGED <<now, ticks, lt_memory, loc, states, issued, pol, settings, ttl_arg, core>>

\* the entry point builds the initial state and starts the graph
StartRequest ==
    /\ pc = "idle"
    /\ pc' = "load_state"
    /\ state' = InitialState
    /\ env' = NoEnv
    /\ ret' = NoRead
    /\ UNCHANGED <<memory, heap>>
    /\ GraphFrame

\* load_state: history = retrieve(...) or []; history.append(user message)
load_state ==
    /\ pc = "load_state"
    /\ LET s     == state.session_id
           found == /\ retrieve_found(memory, s, "history", now)
                    /\ heap[memory[s]["history"].value] # <<>>
           obj   == IF found THEN memory[s]["history"].value ELSE Len(heap) + 1
           old   == IF found THEN heap[obj] ELSE <<>>
           new   == Append(old, Message("user", state.query))
       IN  /\ heap' = IF found THEN [heap EXCEPT ![obj] = new]
                               ELSE Append(heap, new)
           /\ memory' = retrieve_mem(memory, s, "history", now)
           /\ state' = [state EXCEPT !.messages = obj,
                                      !.status = "processing",
                                      !.current_step = "load_state",
                                      !.agent_responses = <<>>]
    /\ pc' = "plan_request"
    /\ env' = [NoEnv EXCEPT !.node = "load_state"]
    /\ ret' = NoRead
    /\ GraphFrame

\* plan_request, for the planner reply r
plan_request(r) ==
    /\ pc = "plan_request"
    /\ IF plan_accepted(r)
       THEN /\ state' = [state EXCEPT !.plan = chosen_plan(r),
                                       !.plan_current_step = 1,
                                       !.replan_flag = FALSE,
                                       !.current_step = "plan_request"]
            /\ memory' = store(memory, state.session_id, "plan",
                               chosen_plan(r), NoneTTL, now)
       ELSE /\ state' = [state EXCEPT !.status = "failed",
                                       !.error = "Planning failed",
                                       !.current_step = "plan_request_error"]
            /\ UNCHANGED memory
    /\ pc' = should_handle_error(state', "execute_plan")
    /\ env' = [NoEnv EXCEPT !.node = "plan_request", !.planner = TRUE]
    /\ ret' = NoRead
    /\ UNCHANGED heap
    /\ GraphFrame

\* the replans requested so far in this request, over all steps
RECURSIVE sum_to(_, _)
sum_to(f, n) == IF n = 0 THEN 0 ELSE f[n] + sum_to(f, n - 1)
replans(st) == sum_to(st.replan_attempts, MaxSteps)

\* plan.get(step_key) is a mapping that names an agent
has_agent_step(st) ==
    /\ StepKey(step_index(st)) \in DOMAIN st.plan
    /\ st.plan[StepKey(step_index(st))].agent # ""

\* the routing decision execute_plan builds: [goto or the step's agent]
executor_decision(st, r) ==
    [present |-> TRUE,
     agents_to_call |-> <<IF r.goto # "" THEN r.goto
                          ELSE st.plan[StepKey(step_index(st))].agent>>,
     routing_reason |-> <<"Executor">>,
     confidence |-> executor_confidence]

\* planning.MAX_REPLANS, quoted in the executor prompt
MAX_REPLANS == 2

\* the replan branch of execute_plan takes every replan request: the count
\* of attempts is written and never read
replan_capped(attempts) == attempts < MAX_REPLANS
replan_allowed(attempts) == TRUE

\* execute_plan, for the executor reply r
execute_plan(r) ==
    /\ pc = "execute_plan"
    /\ LET k == step_index(state)
       IN  IF r.kind = "error" \/ ~has_agent_step(state)
           THEN /\ state' = [state EXCEPT !.status = "failed",
                                           !.error = "Plan execution failed",
                                           !.current_step = "execute_plan_error"]
                /\ UNCHANGED memory
           ELSE IF r.replan /\ ~replan_allowed(state.replan_attempts[k])
           THEN /\ state' = [state EXCEPT !.status = "failed",
                                           !.error = "Plan execution failed",
                                           !.current_step = "execute_plan_error"]
                /\ UNCHANGED memory
           ELSE IF r.replan
           THEN /\ replans(state) < MaxAttempts
                /\ state' = [state EXCEPT !.replan_attempts[k] = @ + 1,
                                           !.replan_flag = TRUE,
                                           !.current_step = "execute_plan_replan"]
                /\ UNCHANGED memory
           ELSE /\ state' = [state EXCEPT
                                !.routing_decision = executor_decision(state, r),
                                !.agent_query = [from |-> "executor", step |-> k],
                                !.replan_flag = FALSE,
                                !.current_step = "execute_plan"]
                /\ memory' = store(memory, state.session_id, "routing_decision",
                                   executor_decision(state, r), NoneTTL, now)
    /\ pc' = should_handle_error(state', "invoke_agents")
    /\ env' = [NoEnv EXCEPT !.node = "execute_plan", !.executor = TRUE]
    /\ ret' = NoRead
    /\ UNCHANGED heap
    /\ GraphFrame

\* `not routing_decision`, or agents_to_call missing / empty: LangGraphError
invocable_always(rd) == TRUE
invocable(rd) == rd.present /\ rd.agents_to_call # <<>>

\* the list the invocation loop walks
agents_to_invoke(rd) == IF rd.present THEN rd.agents_to_call ELSE <<>>

\* _invoke_snowflake_agent: the gateway's answer, or the fallback record when
\* the HTTP call fails; either way tagged with agent_name
agent_response_untagged(a, q, outcome) ==
    [agent_name |-> IF outcome = "fallback" THEN "" ELSE a, agents |-> <<>>,
     response |-> <<[agent |-> a, q |-> q, via |-> outcome, labelled |-> FALSE]>>]
agent_response(a, q, outcome) ==
    [agent_name |-> a, agents |-> <<>>,
     response |-> <<[agent |-> a, q |-> q, via |-> outcome, labelled |-> FALSE]>>]

\* invoke_agents: outcomes[i] is what the i-th gateway call did
invoke_agents(outcomes) ==
    /\ pc = "invoke_agents"
    /\ LET rd    == state.routing_decision
           names == agents_to_invoke(rd)
           q     == state.agent_query
       IN  IF invocable(rd)
           THEN /\ DOMAIN outcomes = DOMAIN names
                /\ state' = [state EXCEPT
                                !.agent_responses =
                                    [i \in DOMAIN names |->
                                        agent_response(names[i], q, outcomes[i])],
                                !.current_step = "invoke_agents"]
                /\ memory' = clean_expired(memory, state.session_id, now)
                /\ env' = [NoEnv EXCEPT !.node = "invoke_agents", !.calls = names]
           ELSE /\ outcomes = <<>>
                /\ state' = [state EXCEPT !.status = "failed",
                                           !.error = "Agent invocation failed",
                                           !.current_step = "invoke_agents_error"]
                /\ env' = [NoEnv EXCEPT !.node = "invoke_agents",
                                        !.calls = names]
                /\ UNCHANGED memory
    /\ pc' = should_handle_error(state', "combine_responses")
    /\ ret' = NoRead
    /\ UNCHANGED heap
    /\ GraphFrame

\* f"[{agent_name}] {response}" for every response, joined
combined_text(rs) ==
    [i \in DOMAIN rs |->
        [agent |-> rs[i].agent_name, q |-> rs[i].response[1].q,
         via |-> rs[i].response[1].via, labelled |-> TRUE]]

\* the single response as it is, or the labelled concatenation
combined_response(rs) ==
    IF Len(rs) = 1 THEN rs[1]
    ELSE [agent_name |-> "", response |-> combined_text(rs),
          agents |-> [i \in DOMAIN rs |-> rs[i].agent_name]]

combine_responses_accumulating ==
    /\ pc = "combine_responses"
    /\ state' = [state EXCEPT
                    !.final_response =
                        @ \o combined_response(state.agent_responses).response,
                    !.agent_responses = <<combined_response(state.agent_responses)>>,
                    !.current_step = "combine_responses"]
    /\ pc' = should_handle_error(state', "advance_plan")
    /\ env' = [NoEnv EXCEPT !.node = "combine_responses"]
    /\ ret' = NoRead
    /\ UNCHANGED <<memory, heap>>
    /\ GraphFrame

combine_responses ==
    /\ pc = "combine_responses"
    /\ state' = [state EXCEPT
                    !.final_response = combined_response(state.agent_responses).response,
                    !.agent_responses = <<combined_response(state.agent_responses)>>,
                    !.current_step = "combine_responses"]
    /\ pc' = should_handle_error(state', "advance_plan")
    /\ env' = [NoEnv EXCEPT !.node = "combine_responses"]
    /\ ret' = NoRead
    /\ UNCHANGED <<memory, heap>>
    /\ GraphFrame

\* should_continue_plan: the edge after advance_plan
should_continue_plan(st) ==
    IF st.status = "failed" THEN "handle_error"
    ELSE IF st.replan_flag THEN "plan_request"
    ELSE IF StepKey(step_index(st)) \in DOMAIN st.plan THEN "execute_plan"
    ELSE "update_memory"

\* advance_plan: keep the step on a replan, else move to step + 1 when the
\* plan has it.  (The source's last `return state` is over-indented; it is
\* read as the function's closing statement.)
advance_plan ==
    /\ pc = "advance_plan"
    /\ state' =
          IF state.replan_flag
          THEN [state EXCEPT !.current_step = "advance_plan_replan"]
          ELSE IF StepKey(step_index(state) + 1) \in DOMAIN state.plan
          THEN [state EXCEPT !.plan_current_step = step_index(state) + 1,
                             !.current_step = "advance_plan"]
          ELSE [state EXCEPT !.current_step = "advance_plan"]
    /\ pc' = should_continue_plan(state')
    /\ env' = [NoEnv EXCEPT !.node = "advance_plan"]
    /\ ret' = NoRead
    /\ UNCHANGED <<memory, heap>>
    /\ GraphFrame

\* handle_error: status = failed, then END
handle_error ==
    /\ pc = "handle_error"
    /\ state' = [state EXCEPT !.status = "failed", !.current_step = "error_handled"]
    /\ pc' = "END"
    /\ env' = [NoEnv EXCEPT !.node = "handle_error"]
    /\ ret' = NoRead
    /\ UNCHANGED <<memory, heap>>
    /\ GraphFrame

\* f"query_pattern_{session_id}"
pattern_key(s) == <<"query_pattern_", s>>

\* LongTermMemory.store(key, value)
lt_store(ltm, k, v) == [x \in (DOMAIN ltm) \cup {k} |-> IF x = k THEN v ELSE ltm[x]]

\* routing_decision.get("confidence", 0) > 0.8
significant(rd) == rd.present /\ rd.confidence > pattern_threshold

\* update_memory: append the assistant turn, persist the bounded window and
\* last_query, write the long-term pattern when the confidence is high
update_memory ==
    /\ pc = "update_memory"
    /\ LET s    == state.session_id
           msgs == IF state.final_response # <<>>
                   THEN Append(heap[state.messages],
                               Message("assistant", state.final_response))
                   ELSE heap[state.messages]
           h1   == [heap EXCEPT ![state.messages] = msgs]
           m1   == store(memory, s, "history", Len(heap) + 1, NoneTTL, now)
       IN  /\ heap' = h1 \o <<Window(msgs), Window(msgs)>>
           /\ memory' = store(m1, s, "last_query", state.query, NoneTTL, now)
           /\ lt_memory' =
                 IF significant(state.routing_decision)
                 THEN lt_store(lt_memory, pattern_key(s),
                               [query |-> state.query,
                                agents |-> state.routing_decision.agents_to_call,
                                success |-> TRUE])
                 ELSE lt_memory
           /\ state' = [state EXCEPT !.messages = Len(heap) + 2,
                                      !.current_step = "update_memory"]
    /\ pc' = "log_observability"
    /\ env' = [NoEnv EXCEPT !.node = "update_memory"]
    /\ ret' = NoRead
    /\ UNCHANGED <<now, ticks, loc, states, issued, pol, settings, ttl_arg, core>>

\* the state log_observability returns: completed whether or not the report
\* to Langfuse fails
logged_state(st, logged) ==
    [st EXCEPT !.status = "completed",
               !.current_step = IF logged THEN "completed" ELSE @]

\* log_observability as a node of the graph
log_observability(logged) ==
    /\ pc = "log_observability"
    /\ state' = logged_state(state, logged)
    /\ pc' = "END"
    /\ env' = [NoEnv EXCEPT !.node = "log_observability"]
    /\ ret' = NoRead
    /\ UNCHANGED <<memory, heap>>
    /\ GraphFrame

\* the conversation already held for the session when the request arrives:
\* none, or a full window
InitHistoryLens == {0, max_history}

GraphInit ==
    /\ now = 0 /\ ticks = 0
    /\ \E n \in InitHistoryLens :
          IF n = 0
          THEN memory = NoBucket /\ heap = <<>>
          ELSE /\ memory = store(NoBucket, GraphSession, "history", 1, NoneTTL, 0)
               /\ heap = <<History(n)>>
    /\ ttl_arg = NoBucket /\ core = Idle
    /\ lt_memory = NoBucket
    /\ ret = NoRead
    /\ pc = "idle" /\ state = InitialState /\ env = NoEnv /\ loc = Idle
    /\ states = NoBucket /\ issued = <<>> /\ pol = Idle
    /\ settings = AllConfigured

\* update_memory and log_observability are nodes of the graph, but no run
\* reaches them (GraphNeverDone): they are not disjuncts of GraphNext.
GraphNext ==
    \/ StartRequest
    \/ load_state
    \/ \E r \in PlannerReplies : plan_request(r)
    \/ \E r \in ExecutorReplies : execute_plan(r)
    \/ \E o \in {<<>>, <<"gateway">>, <<"fallback">>} : invoke_agents(o)
    \/ combine_responses
    \/ advance_plan
    \/ handle_error

SpecGraph == GraphInit /\ [][GraphNext]_vars

\* the same graph with its last two nodes, to show that they stay unreached
GraphNextAll ==
    \/ GraphNext
    \/ update_memory
    \/ \E logged \in BOOLEAN : log_observability(logged)

SpecGraphAll == GraphInit /\ [][GraphNextAll]_vars

GraphNeverDone == pc \notin {"update_memory", "log_observability"}

\* the event loop runs the next node as soon as the previous one has returned
FairSpecGraph == SpecGraph /\ WF_vars(GraphNext)

\* C1: a request whose plan names an agent in every step, whose executor
\* never asks for a replan and in which no node fails, eventually reaches
\* END with status = completed.
C1_PlannedRunCompletes ==
    <>(\/ pc = "END" /\ state.status = "completed"
       \/ state.status = "failed"
       \/ replans(state) > 0)

\* C2: from the pass in which the executor asks for a replan until
\* plan_request has run again, no agent is invoked at the gateway and the
\* executor is not called; the replan pass itself adds exactly 1 to the
\* step's replan_attempts and produces no routing decision.
C2_ReplanPassInvokesNoAgent ==
    [][/\ (pc # "idle" /\ state.replan_flag)
           => (env'.calls = <<>> /\ ~env'.executor)
       /\ (pc = "execute_plan" /\ state'.replan_flag)
           => /\ replans(state') = replans(state) + 1
              /\ state'.replan_attempts[step_index(state)]
                     = state.replan_attempts[step_index(state)] + 1
              /\ state'.routing_decision = state.routing_decision
              /\ env'.calls = <<>>]_vars

\* C3: once a node has set status = failed, the only node that still runs is
\* handle_error, followed by END: no planner or executor call and no agent
\* invocation follows, and the status stays failed.
C3_FailureEndsInHandleError ==
    /\ [](state.status = "failed" => pc \in {"handle_error", "END"})
    /\ [][state.status = "failed"
            => /\ env'.node = "handle_error" /\ pc' = "END"
               /\ state'.status = "failed"
               /\ env'.calls = <<>> /\ ~env'.planner /\ ~env'.executor]_vars

\* C3 witness: invoke_agents failed, handle_error ran, and the request is at
\* END with status failed.
C3_Witness ==
    /\ pc = "END" /\ env.node = "handle_error"
    /\ state.status = "failed" /\ state.error = "Agent invocation failed"

-----------------------------------------------------------------------------
(* AgentRouter (langgraph/reasoning/router.py).  A query enters the router *)
(* as the number of analyst and of search keywords it contains.            *)

Min(a, b) == IF a < b THEN a ELSE b

analyst_keywords == 12
search_keywords == 10

\* values of agent_preference; "" is None
Prefs == {"", " ANALYST_AGENT ", "analyst please", "search docs",
          "the combined one", "other"}

\* agent_preference.strip()
strip(p) == IF p = " ANALYST_AGENT " THEN "ANALYST_AGENT" ELSE p

\* `word in pref.lower()`
mentions(p, word) ==
    <<p, word>> \in {<<"ANALYST_AGENT", "analyst">>,
                     <<"analyst please", "analyst">>,
                     <<"search docs", "search">>,
                     <<"the combined one", "combined">>}

\* values of context.get("data_type"); "" is no context or no data_type
DataTypes == {"", "structured", "unstructured"}

score_analyst_query(matches) ==
    Min((matches * 2 * One) \div analyst_keywords, One)

score_search_query(matches) ==
    Min((matches * 2 * One) \div search_keywords, One)

\* cortex_agent_name_combined or cortex_agent_name
combined_agent(cfg) ==
    IF cfg.cortex_agent_name_combined # "" THEN cfg.cortex_agent_name_combined
    ELSE cfg.cortex_agent_name

\* the router's first check: no agent object configured at all
unconfigured_never(cfg) == FALSE
unconfigured(cfg) ==
    /\ combined_agent(cfg) = ""
    /\ cfg.cortex_agent_name_analyst = ""
    /\ cfg.cortex_agent_name_search = ""

\* a routing decision without / with the "scores" key
Decision(agents, reason, confidence) ==
    [agents_to_call |-> agents, routing_reason |-> <<reason>>,
     confidence |-> confidence]

ScoredDecision(agents, reason, confidence, a, s) ==
    [agents_to_call |-> agents, routing_reason |-> <<reason>>,
     confidence |-> confidence, scores |-> [analyst |-> a, search |-> s]]

Returned(d) == [raised |-> FALSE, decision |-> d]
AgentRoutingError == [raised |-> TRUE]

\* the keyword-scoring part of route_request
scored_route(cfg, am, sm, data_type) ==
    LET analyst_agent == cfg.cortex_agent_name_analyst
        search_agent == cfg.cortex_agent_name_search
        a == score_analyst_query(am)
               + (IF data_type = "structured" THEN One \div 2 ELSE 0)
        s == score_search_query(sm)
               + (IF data_type = "unstructured" THEN One \div 2 ELSE 0)
    IN  IF a > s /\ a > Tenths(3) /\ analyst_agent # ""
        THEN ScoredDecision(<<analyst_agent>>, "Structured intent detected",
                            Min(a, One), a, s)
        ELSE IF s > a /\ s > Tenths(3) /\ search_agent # ""
        THEN ScoredDecision(<<search_agent>>, "Unstructured intent detected",
                            Min(s, One), a, s)
        ELSE IF combined_agent(cfg) # ""
        THEN ScoredDecision(<<combined_agent(cfg)>>,
                            "Ambiguous intent; calling combined agent",
                            One \div 2, a, s)
        ELSE ScoredDecision(
                 (IF analyst_agent # "" THEN <<analyst_agent>> ELSE <<>>)
                    \o (IF search_agent # "" THEN <<search_agent>> ELSE <<>>),
                 "Ambiguous intent; calling multiple agents",
                 One \div 2, a, s)

\* AgentRouter.route_request, for a prompt with am analyst and sm search
\* keywords
route_request(cfg, pref, am, sm, data_type) ==
    LET analyst_agent == cfg.cortex_agent_name_analyst
        search_agent == cfg.cortex_agent_name_search
        p == strip(pref)
    IN  IF unconfigured(cfg) THEN AgentRoutingError
        ELSE IF pref # "" /\ p \in {analyst_agent, search_agent,
                                    combined_agent(cfg)} \ {""}
        THEN Returned(Decision(<<p>>,
                 "Explicit agent preference (agent object)", One))
        ELSE IF pref # "" /\ mentions(p, "analyst") /\ analyst_agent # ""
        THEN Returned(Decision(<<analyst_agent>>,
                 "Explicit agent preference: analyst", One))
        ELSE IF pref # "" /\ mentions(p, "search") /\ search_agent # ""
        THEN Returned(Decision(<<search_agent>>,
                 "Explicit agent preference: search", One))
        ELSE IF pref # "" /\ mentions(p, "combined") /\ combined_agent(cfg) # ""
        THEN Returned(Decision(<<combined_agent(cfg)>>,
                 "Explicit agent preference: combined", One))
        ELSE Returned(scored_route(cfg, am, sm, data_type))

-----------------------------------------------------------------------------
(* The legacy supervisor: LangGraphSupervisor.process_request              *)
(* (langgraph/supervisor.py) with the StateManager.  One action per        *)
(* stretch of the coroutine between two awaits.                            *)

\* numbers of analyst / search keywords in the routing prompt
AnalystMatches == {0, 2, 5}
SearchMatches == {0, 2, 5}

\* the routing inputs of a request
Requests ==
    [query : {GraphQuery}, agent_preference : Prefs,
     analyst_matches : AnalystMatches, search_matches : SearchMatches,
     data_type : DataTypes]

\* settings.snowflake with only some, or none, of the names set ("" is None)
SpecialistsOnly ==
    [AllConfigured EXCEPT !.cortex_agent_name = "",
                          !.cortex_agent_name_combined = ""]
GenericOnly ==
    [AllConfigured EXCEPT !.cortex_agent_name_analyst = "",
                          !.cortex_agent_name_search = "",
                          !.cortex_agent_name_combined = ""]
NoneConfigured ==
    [GenericOnly EXCEPT !.cortex_agent_name = ""]

Configs == {AllConfigured, SpecialistsOnly, GenericOnly, NoneConfigured}

\* StateManager.create_state: a fresh AgentState
AgentState ==
    [status |-> "pending", current_step |-> "", routing_reason |-> <<>>,
     final_response |-> <<>>, error |-> ""]

\* StateManager.update_state: no effect when the session has no state
update_state(sts, s, fields) ==
    IF s \notin DOMAIN sts THEN sts
    ELSE [sts EXCEPT ![s] = [f \in DOMAIN @ |->
                                IF f \in DOMAIN fields THEN fields[f] ELSE @[f]]]

\* get_state(session_id) or create_state(...)
get_or_create_state(sts, s) ==
    IF s \in DOMAIN sts THEN sts
    ELSE [x \in (DOMAIN sts) \cup {s} |-> IF x = s THEN AgentState ELSE sts[x]]

\* the except clause of process_request: mark the state failed, then raise
except_failed(sts, s, why) ==
    update_state(sts, s, [status |-> "failed", error |-> why])

LegacyFrame == UNCHANGED <<state, issued, pol, settings, ttl_arg, core>>

\* lines 46-82: read the history, append the user message, get or create the
\* state and mark it processing; then await the routing prompt
LegacyStart(r) ==
    /\ pc = "idle"
    /\ LET s     == GraphSession
           found == /\ retrieve_found(memory, s, "history", now)
                    /\ heap[memory[s]["history"].value] # <<>>
           obj   == IF found THEN memory[s]["history"].value ELSE Len(heap) + 1
           new   == Append(IF found THEN heap[obj] ELSE <<>>,
                           Message("user", r.query))
       IN  /\ heap' = IF found THEN [heap EXCEPT ![obj] = new]
                               ELSE Append(heap, new)
           /\ memory' = retrieve_mem(memory, s, "history", now)
           /\ states' = update_state(get_or_create_state(states, s), s,
                           [status |-> "processing", current_step |-> "routing"])
           /\ loc' = [node |-> "process_request", session_id |-> s,
                      request |-> r, history |-> obj,
                      routing_decision |-> NoDecision,
                      pending |-> <<>>, agent_responses |-> <<>>]
    /\ pc' = "get_prompt_for_routing"
    /\ env' = [NoEnv EXCEPT !.node = "process_request"]
    /\ ret' = NoRead
    /\ UNCHANGED <<now, ticks, lt_memory>>
    /\ LegacyFrame

\* line 142: agents_to_call is a non-empty list
selected(d) == d.agents_to_call # <<>>

\* lines 88-143: route, record the decision, last_query and the bounded
\* history, snapshot the memory, then start invoking the selected agents.
\* Every store reads the clock itself: d is the time that passes between the
\* store of last_query and the store of routing_decision.
LegacyRoute(d) ==
    /\ pc = "get_prompt_for_routing"
    /\ ticks + d <= MaxTicks
    /\ now' = now + d /\ ticks' = ticks + d
    /\ LET s   == loc.session_id
           r   == loc.request
           res == route_request(settings, r.agent_preference, r.analyst_matches,
                                r.search_matches, r.data_type)
       IN  IF res.raised
           THEN /\ states' = except_failed(states, s, "AgentRoutingError")
                /\ pc' = "raised"
                /\ UNCHANGED <<memory, heap, loc>>
           ELSE LET dec == res.decision
                    m1 == store(memory, s, "last_query", r.query, NoneTTL, now)
                    m2 == store(m1, s, "routing_decision", dec, NoneTTL, now')
                    m3 == store(m2, s, "history", Len(heap) + 1, NoneTTL, now')
                    st == update_state(states, s,
                             [routing_reason |-> dec.routing_reason,
                              current_step |-> "agent_invocation"])
                IN  /\ heap' = Append(heap, Window(heap[loc.history]))
                    /\ memory' = clean_expired(m3, s, now')
                    /\ loc' = [loc EXCEPT !.routing_decision = dec,
                                          !.pending = IF selected(dec)
                                                      THEN dec.agents_to_call
                                                      ELSE <<>>]
                    /\ IF selected(dec)
                       THEN states' = st /\ pc' = "_invoke_snowflake_agent"
                       ELSE /\ states' = except_failed(st, s, "LangGraphError")
                            /\ pc' = "raised"
    /\ env' = [NoEnv EXCEPT !.node = "process_request"]
    /\ ret' = NoRead
    /\ UNCHANGED lt_memory
    /\ LegacyFrame

\* line 197: routing_decision.get("confidence", 0) > 0.8
confident(d) == d.confidence > pattern_threshold

\* lines 157-173: the single response, or the labelled join of all of them
legacy_combined(rs) ==
    IF Len(rs) = 1 THEN rs[1].response
    ELSE [i \in 1 .. Len(rs) |-> [agent_name |-> rs[i].agent_name,
                                   response |-> rs[i].response]]

\* lines 146-205: the gateway call for the next selected agent has returned
\* (answered by the gateway or by the fallback); after the last one the
\* responses are combined, the history and the state are updated and the
\* long-term pattern is written when the decision is confident
LegacyInvoke(outcome) ==
    /\ pc = "_invoke_snowflake_agent"
    /\ LET s    == loc.session_id
           d    == loc.routing_decision
           a    == Head(loc.pending)
           rs   == Append(loc.agent_responses,
                          [agent_name |-> IF outcome = "gateway" THEN a ELSE "agent",
                           response |-> <<a, outcome>>])
           msgs == Append(heap[loc.history],
                          Message("assistant", legacy_combined(rs)))
           done == update_state(states, s,
                      [status |-> "completed", current_step |-> "completed",
                       final_response |-> legacy_combined(rs)])
       IN  /\ loc' = [loc EXCEPT !.pending = Tail(@), !.agent_responses = rs]
           /\ env' = [NoEnv EXCEPT !.node = "process_request", !.calls = <<a>>]
           /\ IF Tail(loc.pending) # <<>>
              THEN /\ pc' = "_invoke_snowflake_agent"
                   /\ UNCHANGED <<memory, heap, states, lt_memory>>
              ELSE /\ heap' = Append([heap EXCEPT ![loc.history] = msgs],
                                     Window(msgs))
                   /\ memory' = store(memory, s, "history", Len(heap) + 1,
                                      NoneTTL, now)
                   /\ IF ~confident(d)
                      THEN /\ states' = done
                           /\ pc' = "log_supervisor_decision"
                           /\ UNCHANGED lt_memory
                      ELSE IF "selected_agent" \in DOMAIN d
                      THEN /\ states' = done
                           /\ pc' = "log_supervisor_decision"
                           /\ lt_memory' =
                                 lt_store(lt_memory, pattern_key(s),
                                          [query |-> loc.request.query,
                                           agent |-> d["selected_agent"],
                                           success |-> TRUE])
                      ELSE /\ states' = except_failed(done, s, "KeyError")
                           /\ pc' = "raised"
                           /\ UNCHANGED lt_memory
    /\ ret' = NoRead
    /\ UNCHANGED <<now, ticks>>
    /\ LegacyFrame

\* lines 207-225: the decision is logged and the result returned
LegacyLog ==
    /\ pc = "log_supervisor_decision"
    /\ pc' = "returned"
    /\ env' = [NoEnv EXCEPT !.node = "process_request"]
    /\ ret' = NoRead
    /\ UNCHANGED <<now, ticks, memory, heap, lt_memory, loc, states>>
    /\ LegacyFrame

\* the legacy supervisor serving requests drawn from reqs, with the clock
\* advancing by one of delays while it records the routing, and the gateway
\* calls ending as one of outcomes
LegacyNext(reqs, delays, outcomes) ==
    \/ \E r \in reqs : LegacyStart(r)
    \/ \E d \in delays : LegacyRoute(d)
    \/ \E o \in outcomes : LegacyInvoke(o)
    \/ LegacyLog

\* a session served by either supervisor variant, under any configuration
SupervisorInit ==
    /\ now = 0 /\ ticks = 0
    /\ \E n \in InitHistoryLens :
          IF n = 0
          THEN memory = NoBucket /\ heap = <<>>
          ELSE /\ memory = store(NoBucket, GraphSession, "history", 1, NoneTTL, 0)
               /\ heap = <<History(n)>>
    /\ ttl_arg = NoBucket /\ core = Idle
    /\ lt_memory = NoBucket
    /\ ret = NoRead
    /\ pc = "idle" /\ state = InitialState /\ env = NoEnv /\ loc = Idle
    /\ states = NoBucket /\ issued = <<>> /\ pol = Idle
    \* a stored conversation was written by requests that were routed
    /\ settings \in Configs
    /\ memory # NoBucket => ~unconfigured(settings)

SupervisorNext == GraphNext \/ LegacyNext(Requests, {0}, {"gateway", "fallback"})

SpecSupervisor == SupervisorInit /\ [][SupervisorNext]_vars

\* a routing decision that is absent or names no agent
NamesNoAgent(rd) == ~rd.present \/ rd.agents_to_call = <<>>

Range(seq) == {seq[i] : i \in DOMAIN seq}

\* C4: the invocation stage calls the gateway only for the agents of a
\* routing decision that names at least one: in the graph, invoke_agents with
\* an absent or empty decision makes no call and fails the request, which goes
\* to handle_error; in the legacy supervisor a decision without agents raises
\* before any call; and no other step calls the gateway.
C4_GatewayOnlyWithAgents ==
    [][/\ (pc = "invoke_agents" /\ NamesNoAgent(state.routing_decision))
           => /\ env'.calls = <<>>
              /\ state'.status = "failed" /\ pc' = "handle_error"
       /\ (pc = "invoke_agents" /\ ~NamesNoAgent(state.routing_decision))
           => env'.calls = state.routing_decision.agents_to_call
       /\ (pc = "get_prompt_for_routing" /\ pc' = "_invoke_snowflake_agent")
           => loc'.routing_decision.agents_to_call # <<>>
       /\ (pc = "_invoke_snowflake_agent")
           => /\ Len(env'.calls) = 1
              /\ env'.calls[1] \in Range(loc.routing_decision.agents_to_call)
       /\ (pc \notin {"invoke_agents", "_invoke_snowflake_agent"})
           => env'.calls = <<>>]_vars

\* C4 witness: invoke_agents ran without a routing decision (the executor
\* asked for a replan on the first pass), called nothing and failed the
\* request.
C4_Witness ==
    /\ pc = "handle_error" /\ env.node = "invoke_agents"
    /\ ~state.routing_decision.present
    /\ env.calls = <<>> /\ state.status = "failed"

\* no request of either variant is in flight on the session
Quiescent == pc \in {"idle", "END", "returned", "raised"}

\* C5: whenever no request is in flight, the list stored under key history
\* for the session holds at most 30 messages.
C5_HistoryBounded ==
    (Quiescent /\ HasKey(memory, GraphSession, "history"))
        => Len(heap[memory[GraphSession]["history"].value]) <= max_history

\* every selected agent of the legacy request in flight has answered
AgentsResponded ==
    /\ loc.node = "process_request"
    /\ loc.agent_responses # <<>> /\ loc.pending = <<>>

\* C8: a request whose routing decision has confidence above 0.8 and whose
\* agents all responded ends completed with long-term memory holding
\* query_pattern_{session_id}; a request with confidence at most 0.8 leaves
\* long-term memory as it was (empty).
C8_ConfidentRequestRecorded ==
    /\ (AgentsResponded /\ pc \in {"returned", "raised"}
          /\ loc.routing_decision.confidence > pattern_threshold)
         => /\ pc = "returned"
            /\ states[loc.session_id].status = "completed"
            /\ pattern_key(loc.session_id) \in DOMAIN lt_memory
    /\ (AgentsResponded /\ loc.routing_decision.confidence <= pattern_threshold)
         => lt_memory = NoBucket
    /\ (pc = "END" /\ state.status = "completed")
         => (pattern_key(state.session_id) \in DOMAIN lt_memory
               <=> state.routing_decision.confidence > pattern_threshold)

-----------------------------------------------------------------------------
(* Routing policies (langgraph/supervisor/policies).  A query enters the   *)
(* follow-up heuristics and the cache key through the text properties      *)
(* tabulated here.                                                         *)

MaxDecides == 2

short_query_chars == 32
cache_ttl_seconds == 60
active_agent_ttl_seconds == 60

QLong == "Show me total sales by region for the last quarter"
QLongSpaced == "  show me TOTAL sales   by region for the last quarter "
QShort == "and that?"
QStarter == "What about the unstructured documents in the archive folder"
QPronoun == "Summarise the findings and send them to the finance team"
QBlank == "   "

Queries == {QLong, QLongSpaced, QShort, QStarter, QPronoun, QBlank}

\* (query or "").strip().lower()
lowered(q) ==
    CASE q = QLong -> "show me total sales by region for the last quarter"
      [] q = QLongSpaced -> "show me total sales   by region for the last quarter"
      [] q = QShort -> "and that?"
      [] q = QStarter -> "what about the unstructured documents in the archive folder"
      [] q = QPronoun -> "summarise the findings and send them to the finance team"
      [] OTHER -> ""

\* len(q) of the lowered query
lowered_len(q) ==
    CASE q = QLong -> 50
      [] q = QLongSpaced -> 52
      [] q = QShort -> 9
      [] q = QStarter -> 59
      [] q = QPronoun -> 56
      [] OTHER -> 0

\* any(q.startswith(s) for s in followup_starters)
has_followup_starter(q) == q \in {QShort, QStarter}

\* a token of the lowered query is one of the pronouns
has_pronoun(q) == q \in {QShort, QPronoun}

\* normalize_query_for_cache: strip, lower, collapse runs of whitespace
normalize_query_for_cache(q) ==
    IF q = QLongSpaced THEN lowered(QLong) ELSE lowered(q)

\* f"routing_cache:{normalized}"
cache_key(q) ==
    CASE normalize_query_for_cache(q) = lowered(QLong)
           -> "routing_cache:show me total sales by region for the last quarter"
      [] q = QShort -> "routing_cache:and that?"
      [] q = QStarter
           -> "routing_cache:what about the unstructured documents in the archive folder"
      [] q = QPronoun
           -> "routing_cache:summarise the findings and send them to the finance team"
      [] OTHER -> "routing_cache:"

\* is_likely_followup(query, messages=..., last_query=...): n is
\* len(messages), has_last is the truth value of last_query
is_likely_followup(q, n, has_last) ==
    IF n < 2 THEN FALSE
    ELSE IF lowered(q) = "" THEN FALSE
    ELSE IF lowered_len(q) <= short_query_chars THEN TRUE
    ELSE IF has_followup_starter(q) THEN TRUE
    ELSE has_last /\ has_pronoun(q)

\* retrieve returns a non-empty string
truthy_text(mem, s, k, t) ==
    retrieve_found(mem, s, k, t) /\ mem[s][k].value # ""

\* retrieve returns a non-empty dict
truthy_dict(mem, s, k, t) ==
    retrieve_found(mem, s, k, t) /\ DOMAIN mem[s][k].value # {}

\* the condition of the follow-up fast path (optimized_router.py 57-64)
followup_reuse_off(enabled, has_routing, followup) == FALSE
followup_reuse(enabled, has_routing, followup) ==
    enabled /\ has_routing /\ followup

FollowUpReuse == "Follow-up reuse: reusing previous routing decision to reduce latency."
CacheHit == "Cache hit: reused cached routing decision for identical query."
Handoff == "Handoff: using active agent for follow-up to reduce latency."

\* dict(decision) with routing_reason prefixed
prefixed(decision, prefix) ==
    [k \in (DOMAIN decision) \cup {"routing_reason"} |->
        IF k = "routing_reason"
        THEN <<prefix>> \o (IF k \in DOMAIN decision THEN decision[k] ELSE <<>>)
        ELSE decision[k]]

\* reused["confidence"] = float(reused.get("confidence", 0.8))
with_confidence(decision) ==
    [k \in (DOMAIN decision) \cup {"confidence"} |->
        IF k = "confidence" /\ k \notin DOMAIN decision THEN Tenths(8)
        ELSE decision[k]]

\* NoCall and Called keep the policy object's cache_ttl_seconds in
\* pol.cache_ttl.
\* the calls of decide: query, len(messages) and the routing inputs
PlainCalls ==
    [query : Queries, messages : {2}, agent_preference : {""},
     analyst_matches : {0}, search_matches : {0}, data_type : {""}]

\* a short query in a conversation of one message, a query with an agent
\* preference, and one whose prompt is full of search keywords
SpecialCalls ==
    {[query |-> QShort, messages |-> 1, agent_preference |-> "",
      analyst_matches |-> 0, search_matches |-> 0, data_type |-> ""],
     [query |-> QLong, messages |-> 2, agent_preference |-> "analyst please",
      analyst_matches |-> 0, search_matches |-> 0, data_type |-> ""],
     [query |-> QLong, messages |-> 2, agent_preference |-> "",
      analyst_matches |-> 0, search_matches |-> 5, data_type |-> "unstructured"]}

DecideCalls == PlainCalls \cup SpecialCalls

\* the calls made on a policy without follow-up reuse, and on HandoffsPolicy
FewCalls ==
    {c \in DecideCalls : c.query = QShort \/ c.agent_preference # ""}

NoCall ==
    [op |-> "none", path |-> "none", decision |-> NoDecision,
     rendered |-> FALSE, routed |-> FALSE, decides |-> 0,
     cache_ttl |-> cache_ttl_seconds]

Called(op, path, decision, rendered, c, enabled) ==
    [op |-> op, path |-> path, decision |-> decision,
     rendered |-> rendered, routed |-> rendered, decides |-> pol.decides + 1,
     query |-> c.query, messages |-> c.messages, enabled |-> enabled,
     agent_preference |-> c.agent_preference, cache_ttl |-> pol.cache_ttl]

PolicyFrame ==
    UNCHANGED <<now, ticks, lt_memory, heap, pc, state, env, loc, states,
                issued, settings, ttl_arg, core>>

\* no supervisor request is between two of its awaits
AtRest == pc \in {"idle", "returned", "raised"}

\* the try / except around the cache write: decide goes on whether or not
\* the write succeeded
swallowed_never(stored) == stored
swallowed(stored) == TRUE

\* OptimizedRouterPolicy.decide, the cache write succeeding or raising
OptimizedDecideWith(enabled, c, stored) ==
    /\ AtRest /\ pol.decides < MaxDecides
    /\ LET s   == GraphSession
           m1  == IF enabled THEN retrieve_mem(memory, s, "last_query", now)
                  ELSE memory
           m2  == IF enabled THEN retrieve_mem(m1, s, "routing_decision", now)
                  ELSE m1
           fup == is_likely_followup(c.query, c.messages,
                                     truthy_text(memory, s, "last_query", now))
           key == cache_key(c.query)
           m3  == retrieve_mem(m2, s, key, now)
           res == route_request(settings, c.agent_preference,
                                c.analyst_matches, c.search_matches, c.data_type)
       IN  IF followup_reuse(enabled,
                             enabled /\ truthy_dict(m1, s, "routing_decision", now), fup)
           THEN /\ memory' = m2
                /\ pol' = Called("OptimizedRouterPolicy", "reused",
                              with_confidence(
                                  prefixed(m1[s]["routing_decision"].value,
                                           FollowUpReuse)),
                              FALSE, c, enabled)
           ELSE IF truthy_dict(m2, s, key, now)
           THEN /\ memory' = m3
                /\ pol' = Called("OptimizedRouterPolicy", "cached",
                              prefixed(m2[s][key].value, CacheHit),
                              FALSE, c, enabled)
           ELSE IF res.raised
           THEN /\ memory' = m3
                /\ pol' = Called("OptimizedRouterPolicy", "raised", NoDecision,
                              TRUE, c, enabled)
           ELSE IF ~swallowed(stored)
           THEN /\ memory' = m3
                /\ pol' = Called("OptimizedRouterPolicy", "raised", NoDecision,
                              TRUE, c, enabled)
           ELSE /\ memory' = IF stored
                             THEN store(m3, s, key, res.decision,
                                        pol.cache_ttl, now)
                             ELSE m3
                /\ pol' = Called("OptimizedRouterPolicy", "routed", res.decision,
                              TRUE, c, enabled)
    /\ LET res == route_request(settings, c.agent_preference,
                                c.analyst_matches, c.search_matches, c.data_type)
       IN  ret' = IF pol'.rendered /\ ~res.raised /\ ~stored
                  THEN [op |-> "store_failed", decision |-> res.decision]
                  ELSE NoRead
    /\ PolicyFrame

\* decide on a short-term memory whose store does not fail
OptimizedDecide(enabled, c) == OptimizedDecideWith(enabled, c, TRUE)

\* getattr(agent_router, "domain_agents", []) or []: AgentRouter defines
\* analyst_keywords and search_keywords only, so the attribute is absent
domain_agents == <<>>

\* the number of the keywords of registry domain `domain` found in the query
keyword_matches(q, domain) ==
    IF (q = QLong /\ domain = "sales") \/ (q = QStarter /\ domain = "documents")
    THEN 2 ELSE 0

\* _score_domain_keywords: matches / max(len(keywords), 1), 0.0 without keywords
score_domain_keywords(q, a) ==
    IF a.keywords = 0 THEN 0
    ELSE (keyword_matches(q, a.domain) * One) \div a.keywords

\* _detect_domain_change over the domain agents `agents`: the first entry
\* with the highest positive score is the best one; a change is detected
\* when its score is at least 0.2 and its domain is not the active domain
detect_domain_change(agents, q, active_domain) ==
    LET score(i) == score_domain_keywords(q, agents[i])
        best == {i \in DOMAIN agents :
                    /\ score(i) > 0
                    /\ \A j \in DOMAIN agents :
                          /\ j < i => score(j) < score(i)
                          /\ j > i => score(j) <= score(i)}
    IN  /\ active_domain # ""
        /\ best # {}
        /\ \A i \in best : /\ score(i) >= Tenths(2)
                           /\ agents[i].domain # active_domain

\* the domain of the first entry of `agents` named `agent`, "" when none
domain_of(agents, agent) ==
    LET named == {i \in DOMAIN agents : agents[i].agent_name = agent}
    IN  IF named = {} THEN ""
        ELSE agents[CHOOSE i \in named : \A j \in named : i <= j].domain

\* active_agent = str(agents[0])
active_agent_last(decision) == decision.agents_to_call[Len(decision.agents_to_call)]
active_agent_of(decision) == decision.agents_to_call[1]

\* HandoffsPolicy._route_and_set_active
route_and_set_active(mem, c, pref) ==
    LET res == route_request(settings, pref, c.analyst_matches,
                             c.search_matches, c.data_type)
    IN  IF res.raised
        THEN /\ memory' = mem
             /\ pol' = Called("HandoffsPolicy", "raised", NoDecision, TRUE, c, FALSE)
        ELSE /\ memory' =
                  IF res.decision.agents_to_call # <<>>
                  THEN LET active == active_agent_of(res.decision)
                           m1 == store(mem, GraphSession, "active_agent", active,
                                       active_agent_ttl_seconds, now)
                       IN  IF domain_of(domain_agents, active) # ""
                           THEN store(m1, GraphSession, "active_domain",
                                      domain_of(domain_agents, active),
                                      active_agent_ttl_seconds, now)
                           ELSE m1
                  ELSE mem
             /\ pol' = Called("HandoffsPolicy", "routed", res.decision, TRUE, c, FALSE)

\* the condition of the follow-up handoff (handoffs.py 100-105)
handoff_applies_never(active, followup, changed) == FALSE
handoff_applies(active, followup, changed) == active /\ followup /\ ~changed

\* HandoffsPolicy.decide
HandoffsDecide(c) ==
    /\ AtRest /\ pol.decides < MaxDecides
    /\ LET s   == GraphSession
           m1  == retrieve_mem(memory, s, "active_agent", now)
           m2  == retrieve_mem(m1, s, "active_domain", now)
           m3  == retrieve_mem(m2, s, "last_query", now)
           fup == is_likely_followup(c.query, c.messages,
                                     truthy_text(m2, s, "last_query", now))
           active_domain == IF truthy_text(m1, s, "active_domain", now)
                            THEN m1[s]["active_domain"].value ELSE ""
       IN  IF c.agent_preference # ""
           THEN route_and_set_active(m3, c, c.agent_preference)
           ELSE IF handoff_applies(
                       truthy_text(memory, s, "active_agent", now), fup,
                       detect_domain_change(domain_agents, c.query, active_domain))
           THEN /\ memory' = m3
                /\ pol' = Called("HandoffsPolicy", "handoff",
                              Decision(<<memory[s]["active_agent"].value>>,
                                       Handoff, One),
                              FALSE, c, FALSE)
           ELSE route_and_set_active(m3, c, "")
    /\ ret' = NoRead
    /\ PolicyFrame

\* requests the legacy supervisor serves on the policies' session
PolicyRequests ==
    [query : {QLong}, agent_preference : {""}, analyst_matches : {0},
     search_matches : {0}, data_type : {""}]

PolicyInit ==
    /\ now = 0 /\ ticks = 0
    /\ memory = NoBucket /\ heap = <<>>
    /\ ttl_arg = NoBucket /\ core = Idle
    /\ lt_memory = NoBucket
    /\ ret = NoRead
    /\ pc = "idle" /\ state = InitialState /\ env = NoEnv /\ loc = Idle
    /\ states = NoBucket /\ issued = <<>> /\ pol = NoCall
    /\ settings \in Configs

PolicyNext ==
    \/ LegacyNext(PolicyRequests, {0, 1}, {"gateway"})
    \/ \E c \in DecideCalls : OptimizedDecide(TRUE, c)
    \/ \E c \in FewCalls : OptimizedDecide(FALSE, c)
    \/ \E c \in FewCalls : HandoffsDecide(c)
    \/ (AtRest /\ Tick(default_ttl))

SpecPolicy == PolicyInit /\ [][PolicyNext]_vars

\* the standard shape of a routing decision
WellFormed(d) ==
    /\ {"agents_to_call", "routing_reason", "confidence"} \subseteq DOMAIN d
    /\ d.agents_to_call # <<>>
    /\ d.routing_reason # <<>>
    /\ d.confidence \in 0 .. One

\* C9: every routing decision returned by AgentRouter.route_request (to the
\* legacy supervisor or inside a policy), by OptimizedRouterPolicy.decide
\* (routed, cached or reused) or by HandoffsPolicy.decide (routed or handoff)
\* has a non-empty agents_to_call list, a routing_reason and a confidence in
\* [0.0, 1.0]; when no such decision can be made the call raises and returns
\* no decision.
C9_DecisionsWellFormed ==
    /\ pol.path \in {"reused", "cached", "routed", "handoff"}
          => WellFormed(pol.decision)
    /\ pol.path = "raised" => pol.decision = NoDecision
    /\ (loc.node = "process_request" /\ pc # "get_prompt_for_routing")
          => (IF pc = "raised" /\ loc.routing_decision = NoDecision
              THEN settings = NoneConfigured
              ELSE WellFormed(loc.routing_decision))

\* C9 witness: OptimizedRouterPolicy answered from its cache a query that
\* an earlier call had routed.
C9_Witness ==
    /\ pol.op = "OptimizedRouterPolicy" /\ pol.path = "cached"
    /\ pol.decision.routing_reason[1] = CacheHit
    /\ Len(pol.decision.agents_to_call) = 2

\* the entry under key k is stored for the session and has not expired
Live(mem, k, t) ==
    HasKey(mem, GraphSession, k) /\ ~Expired(mem[GraphSession][k], t)

\* a decide call of OptimizedRouterPolicy with follow-up reuse enabled, made
\* while a routing_decision is stored and live, for a query that is judged a
\* likely follow-up
ReuseCase ==
    /\ pol'.decides = pol.decides + 1
    /\ pol'.op = "OptimizedRouterPolicy" /\ pol'.enabled
    /\ Live(memory, "routing_decision", now)
    /\ is_likely_followup(pol'.query, pol'.messages,
                          Live(memory, "last_query", now))

\* what the follow-up reuse returns: the prior agents_to_call, a reason that
\* starts with "Follow-up reuse", no prompt rendered and no router call
ReuseAnswer ==
    /\ pol'.path = "reused"
    /\ pol'.decision.agents_to_call
          = memory[GraphSession]["routing_decision"].value.agents_to_call
    /\ pol'.decision.routing_reason[1] = FollowUpReuse
    /\ ~pol'.rendered /\ ~pol'.routed

\* C10 as stated: in the reuse case the answer is the reuse answer and
\* short-term memory is left exactly as it was.
C10_ReuseLeavesMemoryUntouched ==
    [][ReuseCase => (ReuseAnswer /\ memory' = memory)]_vars

\* no entry of the session is written or changed; entries that are gone had
\* expired
OnlyExpiredRemoved ==
    /\ DOMAIN memory' = DOMAIN memory
    /\ \A k \in DOMAIN memory'[GraphSession] :
          /\ k \in DOMAIN memory[GraphSession]
          /\ memory'[GraphSession][k] = memory[GraphSession][k]
    /\ \A k \in DOMAIN memory[GraphSession] \ DOMAIN memory'[GraphSession] :
          Expired(memory[GraphSession][k], now)

\* C10 (amended): in the reuse case the answer is the reuse answer, no
\* short-term memory entry is written and no live entry is changed or
\* removed: the only possible change is that an expired last_query entry is
\* deleted by the read.
C10_ReuseWritesNothing ==
    [][ReuseCase => (ReuseAnswer /\ OnlyExpiredRemoved)]_vars

\* C10 witness: a follow-up was answered by reuse while the last_query entry
\* had already expired and was deleted by the read.
C10_Witness ==
    /\ pol.op = "OptimizedRouterPolicy" /\ pol.path = "reused"
    /\ pol.decision.routing_reason[1] = FollowUpReuse
    /\ HasKey(memory, GraphSession, "routing_decision")
    /\ ~HasKey(memory, GraphSession, "last_query")

-----------------------------------------------------------------------------
(* The routing cache of OptimizedRouterPolicy on its own: a policy built   *)
(* with cache_ttl_seconds 0 or 60 answers decide calls for one session     *)
(* while the clock advances by one second or by one cache TTL.             *)

CacheInit ==
    /\ now = 0 /\ ticks = 0
    /\ memory = NoBucket /\ heap = <<>>
    /\ ttl_arg = NoBucket /\ core = Idle
    /\ lt_memory = NoBucket
    /\ ret = NoRead
    /\ pc = "idle" /\ state = InitialState /\ env = NoEnv /\ loc = Idle
    /\ states = NoBucket /\ issued = <<>>
    /\ \E t \in {0, cache_ttl_seconds} : pol = [NoCall EXCEPT !.cache_ttl = t]
    /\ settings \in {AllConfigured, NoneConfigured}

CacheNext ==
    \/ \E c \in PlainCalls : OptimizedDecide(TRUE, c)
    \/ \E c \in PlainCalls : OptimizedDecide(FALSE, c)
    \/ \E d \in {1, cache_ttl_seconds} : Tick(d)

SpecCache == CacheInit /\ [][CacheNext]_vars

\* C11: when a decide call of OptimizedRouterPolicy is not answered by
\* follow-up reuse and the session holds a cache entry for the normalised
\* query, then, if the entry is no older than the configured cache TTL, the
\* call returns the entry's agents_to_call with a reason prefixed "Cache hit"
\* and renders no prompt and calls no router; if the entry is older than the
\* configured cache TTL, the prompt is rendered and the router called again.
C11_CacheHonoursConfiguredTtl ==
    [][(/\ pol'.decides = pol.decides + 1
        /\ pol'.op = "OptimizedRouterPolicy"
        /\ pol'.path # "reused"
        /\ HasKey(memory, GraphSession, cache_key(pol'.query)))
       => LET e == memory[GraphSession][cache_key(pol'.query)]
          IN  IF now - e.timestamp <= pol.cache_ttl
              THEN /\ pol'.path = "cached"
                   /\ pol'.decision.agents_to_call = e.value.agents_to_call
                   /\ pol'.decision.routing_reason[1] = CacheHit
                   /\ ~pol'.rendered /\ ~pol'.routed
              ELSE pol'.rendered /\ pol'.routed]_vars

-----------------------------------------------------------------------------
(* HandoffsPolicy on its own: decide calls for one session whose earlier   *)
(* turn may have left a last_query, while the clock advances by one second *)
(* or by one active-agent TTL.                                             *)

\* the calls of HandoffsPolicy.decide: follow-up and new-topic queries in a
\* conversation of one or two messages, and a short query with a preference
HandoffCalls ==
    [query : {QLong, QShort, QStarter, QPronoun}, messages : {1, 2},
     agent_preference : {""}, analyst_matches : {0}, search_matches : {0},
     data_type : {""}]
    \cup [query : {QShort}, messages : {2},
          agent_preference : {"analyst please", "other"},
          analyst_matches : {0}, search_matches : {0}, data_type : {""}]

HandoffsInit ==
    /\ now = 0 /\ ticks = 0
    /\ memory \in {NoBucket,
                   store(NoBucket, GraphSession, "last_query", QLong, NoneTTL, 0)}
    /\ heap = <<>>
    /\ ttl_arg = NoBucket /\ core = Idle
    /\ lt_memory = NoBucket
    /\ ret = NoRead
    /\ pc = "idle" /\ state = InitialState /\ env = NoEnv /\ loc = Idle
    /\ states = NoBucket /\ issued = <<>> /\ pol = NoCall
    /\ settings \in {AllConfigured, SpecialistsOnly, NoneConfigured}

HandoffsNext ==
    \/ \E c \in HandoffCalls : HandoffsDecide(c)
    \/ \E d \in {1, active_agent_ttl_seconds} : Tick(d)

SpecHandoffs == HandoffsInit /\ [][HandoffsNext]_vars

\* a decide call of HandoffsPolicy is the step taken
HandoffsCall ==
    pol'.decides = pol.decides + 1 /\ pol'.op = "HandoffsPolicy"

\* C12: a decide call of HandoffsPolicy with a non-empty agent_preference
\* renders the prompt and calls the router and is never a handoff, whatever
\* is stored for the session; when the router returns a decision,
\* active_agent in short-term memory is then the decision's first agent.
C12_PreferenceAlwaysRoutes ==
    [][(HandoffsCall /\ pol'.agent_preference # "")
       => /\ pol'.path \in {"routed", "raised"}
          /\ pol'.rendered /\ pol'.routed
          /\ pol'.path = "routed"
               => /\ HasKey(memory', GraphSession, "active_agent")
                  /\ memory'[GraphSession]["active_agent"].value
                         = pol'.decision.agents_to_call[1]
                  /\ memory'[GraphSession]["active_agent"].timestamp = now]_vars

\* C12 witness: the second call of a session, made with a preference and a
\* short follow-up query while the active agent of the first call was still
\* live, was routed to two agents and the first of them is the active agent.
C12_Witness ==
    /\ pol.op = "HandoffsPolicy" /\ pol.path = "routed"
    /\ pol.decides = 2 /\ ticks = 0 /\ settings = SpecialistsOnly
    /\ pol.agent_preference = "other" /\ pol.query = QShort /\ pol.messages = 2
    /\ pol.decision.agents_to_call = <<"ANALYST_AGENT", "SEARCH_AGENT">>
    /\ memory[GraphSession]["active_agent"].value = "ANALYST_AGENT"

\* the active_domain the call reads from short-term memory, "" when none
StoredDomain ==
    IF Live(memory, "active_domain", now)
    THEN memory[GraphSession]["active_domain"].value ELSE ""

\* C13: a decide call of HandoffsPolicy without agent_preference, made while
\* an active agent is stored and unexpired, for a query judged a likely
\* follow-up and with no domain change detected, returns exactly
\* agents_to_call = [active_agent], confidence 1.0 and the "Handoff: ..."
\* reason, and neither renders the prompt nor calls the router.
C13_FollowUpHandsOff ==
    [][(/\ HandoffsCall /\ pol'.agent_preference = ""
        /\ Live(memory, "active_agent", now)
        /\ is_likely_followup(pol'.query, pol'.messages,
                              Live(memory, "last_query", now))
        /\ ~detect_domain_change(domain_agents, pol'.query, StoredDomain))
       => /\ pol'.path = "handoff"
          /\ pol'.decision
                = Decision(<<memory[GraphSession]["active_agent"].value>>,
                           Handoff, One)
          /\ ~pol'.rendered /\ ~pol'.routed]_vars

\* C13 witness: a follow-up that only its pronoun marks as one was handed to
\* the active agent, one active-agent TTL after that agent was stored.
C13_Witness ==
    /\ pol.op = "HandoffsPolicy" /\ pol.path = "handoff"
    /\ pol.query = QPronoun /\ pol.messages = 2
    /\ pol.decision.agents_to_call = <<"COMBINED_AGENT">>
    /\ now = active_agent_ttl_seconds
    /\ HasKey(memory, GraphSession, "active_agent")

\* the domain registry (config/agents.yaml): agent_name, domain and the
\* number of keywords of each entry
Registry ==
    <<[agent_name |-> "ANALYST_AGENT", domain |-> "sales", keywords |-> 2],
      [agent_name |-> "SEARCH_AGENT", domain |-> "documents", keywords |-> 2]>>

\* C14: a decide call of HandoffsPolicy made while an active agent is stored
\* and unexpired, for a query whose best keyword-scoring registry domain
\* scores at least 0.2 and differs from the active agent's domain, is not a
\* handoff: the prompt is rendered, the router is called and, when it
\* returns a decision, active_agent becomes the decision's first agent.
C14_DomainChangeReroutes ==
    [][(/\ HandoffsCall
        /\ Live(memory, "active_agent", now)
        /\ detect_domain_change(
               Registry, pol'.query,
               domain_of(Registry, memory[GraphSession]["active_agent"].value)))
       => /\ pol'.path \in {"routed", "raised"}
          /\ pol'.rendered /\ pol'.routed
          /\ pol'.path = "routed"
               => memory'[GraphSession]["active_agent"].value
                      = pol'.decision.agents_to_call[1]]_vars

-----------------------------------------------------------------------------
(* MultiAgentOrchestrator.process_request (aws_agent_core/orchestrator.py) *)
(* with the tracer and the metrics collector.  Requests overlap at the two *)
(* awaits of the coroutine: the orchestrator prompt and the LangGraph      *)
(* call.  One action per stretch between two awaits.                       *)

\* the requests that may overlap
MaxRequests == 2

OrchRequests == 1 .. MaxRequests

\* f"{operation_name}_{int(time.time() * 1000)}"
trace_id(operation, t) == [operation |-> operation, n |-> epoch_ms(t)]

\* MetricsCollector.increment_counter: self.counters[counter_name] += 1
increment_nothing(counters, name) == counters
increment_counter(counters, name) == [counters EXCEPT ![name] = @ + 1]

\* AgentCoreTracer.trace_operation on exit: the trace context is stored under
\* its trace_id with status success, or error with the exception's text
trace_exit(traces, id, status, error) ==
    [x \in (DOMAIN traces) \cup {id} |->
        IF x = id
        THEN [operation |-> id.operation, status |-> status, error |-> error]
        ELSE traces[x]]

NoCounters ==
    [k \in {"requests.total", "requests.success", "requests.error"} |-> 0]

NotStarted == [pc |-> "idle", raised |-> "", cause |-> "", counted |-> {}]

OrchFrame ==
    UNCHANGED <<now, ticks, memory, lt_memory, heap, ret, pc, state, env, loc,
                states, issued, pol, settings, ttl_arg>>

\* lines 49-61: the trace is opened, requests.total counted, and the
\* orchestrator prompt awaited
OrchStart_uncounted(r) ==
    /\ core.reqs[r].pc = "idle"
    /\ core' = [core EXCEPT
                   !.reqs[r] = [pc |-> "_get_orchestrator_prompt",
                                raised |-> "", cause |-> "",
                                counted |-> {},
                                trace_id |-> trace_id("orchestrate_request", now)]]
    /\ OrchFrame
OrchStart(r) ==
    /\ core.reqs[r].pc = "idle"
    /\ core' = [core EXCEPT
                   !.counters = increment_counter(@, "requests.total"),
                   !.reqs[r] = [pc |-> "_get_orchestrator_prompt",
                                raised |-> "", cause |-> "",
                                counted |-> {"requests.total"},
                                trace_id |-> trace_id("orchestrate_request", now)]]
    /\ OrchFrame

\* lines 61-71: the prompt came back, or its failure was logged and None
\* returned; the LangGraph call is awaited
OrchPrompt(r, prompt) ==
    /\ core.reqs[r].pc = "_get_orchestrator_prompt"
    /\ core' = [core EXCEPT !.reqs[r].pc = "_invoke_langgraph"]
    /\ OrchFrame

\* the first step that fails, "" when none does: the LangGraph call, the
\* runtime client (called only with agent_id and agent_alias_id) or the
\* construction of the AgentResponse
failed_step(o) ==
    IF ~o.langgraph THEN "LangGraphError"
    ELSE IF o.agent_ids /\ ~o.runtime THEN "AWSAgentCoreError"
    ELSE IF ~o.response THEN "ValidationError"
    ELSE ""

\* lines 71-121: the LangGraph call has returned or raised; the rest of the
\* coroutine runs without another await, and the tracer stores the trace
\* when the with-block is left
OrchFinish(r, o) ==
    /\ core.reqs[r].pc = "_invoke_langgraph"
    /\ LET req == core.reqs[r]
           why == failed_step(o)
       IN  IF why = ""
           THEN core' = [core EXCEPT
                   !.counters = increment_counter(@, "requests.success"),
                   !.traces = trace_exit(@, req.trace_id, "success", ""),
                   !.reqs[r] = [req EXCEPT
                                   !.pc = "returned",
                                   !.counted = @ \cup {"requests.success"}]]
           ELSE core' = [core EXCEPT
                   !.counters = increment_counter(@, "requests.error"),
                   !.traces = trace_exit(@, req.trace_id, "error",
                                         "AWSAgentCoreError"),
                   !.reqs[r] = [req EXCEPT
                                   !.pc = "raised",
                                   !.raised = "AWSAgentCoreError",
                                   !.cause = why,
                                   !.counted = @ \cup {"requests.error"}]]
    /\ OrchFrame

\* what the awaited and called services do for one request
OrchOutcomes ==
    [langgraph : BOOLEAN, agent_ids : BOOLEAN, runtime : BOOLEAN,
     response : BOOLEAN]

OrchInit ==
    /\ now = 0 /\ ticks = 0
    /\ memory = NoBucket /\ heap = <<>>
    /\ ttl_arg = NoBucket
    /\ lt_memory = NoBucket
    /\ ret = NoRead
    /\ pc = "idle" /\ state = Idle /\ env = Idle /\ loc = Idle
    /\ states = NoBucket /\ issued = <<>> /\ pol = Idle
    /\ settings = AllConfigured
    /\ core = [counters |-> NoCounters, traces |-> NoBucket,
               reqs |-> [r \in OrchRequests |-> NotStarted]]

OrchNext ==
    \/ \E r \in OrchRequests : OrchStart(r)
    \/ \E r \in OrchRequests, prompt \in BOOLEAN : OrchPrompt(r, prompt)
    \/ \E r \in OrchRequests, o \in OrchOutcomes : OrchFinish(r, o)
    \/ Tick(1)

SpecOrchestrator == OrchInit /\ [][OrchNext]_vars

\* C15: when a step of process_request fails, the call raises
\* AWSAgentCoreError, and in the step in which the exception leaves the call
\* requests.error grows by exactly 1, requests.success stays as it is and
\* the orchestrate_request trace is stored with status error; over its whole
\* run the failed request has counted requests.total and requests.error
\* only, and a request that returns has raised nothing.
C15_FailureCountedAndTraced ==
    /\ [][\A r \in OrchRequests :
            (core.reqs[r].pc = "_invoke_langgraph" /\ core'.reqs[r] # core.reqs[r])
            => IF core'.reqs[r].cause # ""
               THEN /\ core'.reqs[r].pc = "raised"
                    /\ core'.reqs[r].raised = "AWSAgentCoreError"
                    /\ core'.counters["requests.error"]
                           = core.counters["requests.error"] + 1
                    /\ core'.counters["requests.success"]
                           = core.counters["requests.success"]
                    /\ core.reqs[r].trace_id \in DOMAIN core'.traces
                    /\ core'.traces[core.reqs[r].trace_id].status = "error"
                    /\ core'.traces[core.reqs[r].trace_id].operation
                           = "orchestrate_request"
               ELSE core'.reqs[r].pc = "returned"]_vars
    /\ [](\A r \in OrchRequests :
            /\ core.reqs[r].pc = "raised"
                 => /\ core.reqs[r].cause # ""
                    /\ core.reqs[r].counted = {"requests.total", "requests.error"}
            /\ core.reqs[r].pc = "returned" => core.reqs[r].cause = "")
    /\ [](core.counters["requests.error"]
             = Cardinality({r \in OrchRequests : core.reqs[r].pc = "raised"}))

\* C15 witness: of two requests that opened their traces in the same
\* millisecond, one has returned and the other one then failed in the
\* runtime client.
C15_Witness ==
    /\ core.reqs[1].pc = "returned" /\ core.reqs[2].pc = "raised"
    /\ core.reqs[2].cause = "AWSAgentCoreError"
    /\ core.reqs[1].trace_id = core.reqs[2].trace_id
    /\ core.traces[core.reqs[2].trace_id].status = "error"
    /\ core.counters["requests.error"] = 1
    /\ core.counters["requests.success"] = 1

-----------------------------------------------------------------------------
(* The Teams outgoing-webhook Lambda handler                               *)
(* (aws_agent_core/lambda_handlers/teams_webhook_handler.py).  The handler *)
(* is synchronous: one action serves one request from the API Gateway      *)
(* event to the response.                                                  *)

\* base64(HMAC-SHA256(secret, body)): a text that determines secret and body
hmac_sha256_b64(secret, body) == [secret |-> secret, body |-> body]

\* the empty text as a signature
EmptySig == hmac_sha256_b64("", "")

\* verify_teams_webhook_signature: compare_digest(signature, expected)
verify_always(body, signature, secret) == TRUE
verify_teams_webhook_signature(body, signature, secret) ==
    signature = hmac_sha256_b64(secret, body)

\* a header that is not sent, and one sent with value scheme + sig
NoHeader == [present |-> FALSE, bearer |-> FALSE, sig |-> EmptySig]
Header(bearer, sig) == [present |-> TRUE, bearer |-> bearer, sig |-> sig]

\* headers.get(name, ""), with "Bearer " removed when asked
header_value(h) == IF h.present THEN h.sig ELSE EmptySig

\* lines 87-90: the authorization header without "Bearer ", or the
\* x-teams-signature header when that is empty
read_signature(headers) ==
    IF header_value(headers.authorization) # EmptySig
    THEN header_value(headers.authorization)
    ELSE header_value(headers.x_teams_signature)

Response(status, code, invoked) ==
    [statusCode |-> status, error_code |-> code, orchestrator |-> invoked]

\* lambda_handler: the response to `event` under the configured secret
\* ("" when none); the orchestrator's own failure is answered 200 as well
lambda_handler(event, secret) ==
    IF event.method = "OPTIONS" THEN Response(200, "", FALSE)
    ELSE IF /\ secret # ""
            /\ read_signature(event.headers) # EmptySig
            /\ ~verify_teams_webhook_signature(event.body,
                   read_signature(event.headers), secret)
    THEN Response(401, "UNAUTHORIZED", FALSE)
    ELSE IF event.body = "not json" THEN Response(400, "INVALID_PAYLOAD", FALSE)
    ELSE IF event.body = "{\"text\": \" \"}" THEN Response(200, "", FALSE)
    ELSE Response(200, "", TRUE)

\* the bodies Teams or anyone else posts
Bodies == {"{\"text\": \"total sales?\"}", "{\"text\": \"drop the table\"}",
           "{\"text\": \" \"}", "not json"}

WebhookSecret == "app-password"

\* signatures a sender can put in a header: the right one for a body, one
\* made with another secret, and nothing
Signatures ==
    {hmac_sha256_b64(k, b) :
        k \in {WebhookSecret, "guess"},
        b \in {"{\"text\": \"total sales?\"}", "not json"}}
    \cup {EmptySig}

HeaderValues ==
    {NoHeader} \cup {Header(b, g) : b \in BOOLEAN, g \in Signatures}

Events ==
    [method : {"POST", "OPTIONS"}, body : Bodies,
     headers : [authorization : HeaderValues,
                x_teams_signature : {NoHeader} \cup
                    {Header(FALSE, g) : g \in Signatures}]]

\* one invocation of the Lambda
Webhook(event) ==
    /\ core' = [core EXCEPT
                   !.event = event,
                   !.handled = TRUE,
                   !.response = lambda_handler(event, core.secret)]
    /\ OrchFrame

WebhookInit ==
    /\ now = 0 /\ ticks = 0
    /\ memory = NoBucket /\ heap = <<>>
    /\ ttl_arg = NoBucket
    /\ lt_memory = NoBucket
    /\ ret = NoRead
    /\ pc = "idle" /\ state = Idle /\ env = Idle /\ loc = Idle
    /\ states = NoBucket /\ issued = <<>> /\ pol = Idle
    /\ settings = AllConfigured
    /\ \E k \in {"", WebhookSecret} :
          core = [secret |-> k, handled |-> FALSE,
                  event |-> CHOOSE e \in Events : e.method = "OPTIONS",
                  response |-> Response(200, "", FALSE)]

WebhookNext == \E e \in Events : Webhook(e)

SpecWebhook == WebhookInit /\ [][WebhookNext]_vars

\* the values of the signature headers the request carries
SuppliedSignatures ==
    {h.sig : h \in {x \in {core.event.headers.authorization,
                           core.event.headers.x_teams_signature} : x.present}}

\* the request's payload is one the handler passes on
Orchestrable ==
    core.event.body \in {"{\"text\": \"total sales?\"}", "{\"text\": \"drop the table\"}"}

\* C16 as stated: with a secret configured, a request that carries a
\* signature header and no signature equal to the HMAC of its raw body is
\* answered 401 UNAUTHORIZED without the orchestrator being invoked; a
\* request without any signature header is not rejected and reaches the
\* orchestrator.
C16_WrongSignatureRejected ==
    (core.handled /\ core.secret # "" /\ core.event.method = "POST")
    => /\ (/\ SuppliedSignatures # {}
           /\ hmac_sha256_b64(core.secret, core.event.body)
                  \notin SuppliedSignatures)
          => core.response = Response(401, "UNAUTHORIZED", FALSE)
       /\ SuppliedSignatures = {}
          => /\ core.response.statusCode # 401
             /\ Orchestrable => core.response.orchestrator

\* C16: with a secret configured, a request whose signature (the
\* authorization value without "Bearer ", or the x-teams-signature value
\* when that is empty or absent) is not empty and differs from the HMAC of
\* the raw body is answered 401 UNAUTHORIZED without the orchestrator being
\* invoked; a request with no signature header, or with empty ones only, is
\* not rejected and reaches the orchestrator.
C16_NonEmptyWrongSignatureRejected ==
    (core.handled /\ core.secret # "" /\ core.event.method = "POST")
    => /\ (/\ read_signature(core.event.headers) # EmptySig
           /\ read_signature(core.event.headers)
                  # hmac_sha256_b64(core.secret, core.event.body))
          => core.response = Response(401, "UNAUTHORIZED", FALSE)
       /\ SuppliedSignatures \subseteq {EmptySig}
          => /\ core.response.statusCode # 401
             /\ Orchestrable => core.response.orchestrator

\* C16 witness: a body altered after it was signed was answered 401.
C16_Witness ==
    /\ core.handled /\ core.secret = WebhookSecret
    /\ core.event.method = "POST"
    /\ core.event.body = "{\"text\": \"drop the table\"}"
    /\ core.event.headers.authorization
          = Header(TRUE, hmac_sha256_b64(WebhookSecret, "{\"text\": \"total sales?\"}"))
    /\ core.response = Response(401, "UNAUTHORIZED", FALSE)

-----------------------------------------------------------------------------
(* The Cortex Agents gateway client                                        *)
(* (snowflake_cortex/gateway/agent_gateway.py, CortexAgentGateway).        *)

\* a message of Snowflake's `messages` schema
SfMessage(role, text) ==
    [role |-> role, content |-> <<[type |-> "text", text |-> text]>>]

\* _build_messages: the user and assistant turns of the history converted,
\* the query appended unless it already is the last user turn
\* a history entry whose content is no text
NonText(role) == [role |-> role, content |-> "", non_str |-> TRUE]
is_str_content(m) == "non_str" \notin DOMAIN m

build_messages_appending(query, history) ==
    LET kept == SelectSeq(history, LAMBDA m : m.role \in {"user", "assistant"}
                                              /\ is_str_content(m))
    IN  Append([i \in 1 .. Len(kept) |-> SfMessage(kept[i].role, kept[i].content)],
               SfMessage("user", query))
build_messages(query, history) ==
    LET kept == SelectSeq(history, LAMBDA m : m.role \in {"user", "assistant"}
                                              /\ is_str_content(m))
        ms   == [i \in 1 .. Len(kept) |-> SfMessage(kept[i].role, kept[i].content)]
    IN  IF \/ ms = <<>>
           \/ ms[Len(ms)].role # "user"
           \/ ms[Len(ms)].content[1].text # query
        THEN Append(ms, SfMessage("user", query))
        ELSE ms

\* a value of context["thread_id"] or context["parent_message_id"]: absent
\* (None), an int, a numeric text, or a text that int() rejects
NoId == [kind |-> "none", n |-> 0]
IntId(n) == [kind |-> "int", n |-> n]
TextId(n) == [kind |-> "str", n |-> n]
BadId == [kind |-> "bad", n |-> 0]

\* bool(v) and `v is not None`
truthy_id(v) == v.kind \in {"str", "bad"} \/ (v.kind = "int" /\ v.n # 0)
given(v) == v.kind # "none"

NoBody == [messages |-> <<>>, threaded |-> FALSE, thread_id |-> 0,
           parent_message_id |-> 0]
NoResult == [response |-> "", agent_name |-> "", session_id |-> "",
             trulens_eval |-> ""]

NoTextParsed == "(no response text parsed from SSE)"

\* what TruLens leaves in result["trulens_eval"]: nothing when it is
\* disabled, only logs, or raises; the scores or the error of the evaluation
trulens_eval(trulens) ==
    CASE trulens = "evaluated" -> "scores"
      [] trulens = "not_evaluated" -> "error"
      [] OTHER -> ""

\* invoke_agent: the request body built from the context, the call of the
\* Run API (post.kind is "ok" or "http_error") and the TruLens report
invoke_agent(agent_name, query, session_id, ctx, post, trulens) ==
    LET messages == build_messages(query,
                        IF ~truthy_id(ctx.thread_id) THEN ctx.history ELSE <<>>)
        threaded == given(ctx.thread_id) /\ given(ctx.parent_message_id)
        body == IF threaded
                THEN [messages |-> <<SfMessage("user", query)>>,
                      threaded |-> TRUE,
                      thread_id |-> ctx.thread_id.n,
                      parent_message_id |-> ctx.parent_message_id.n]
                ELSE [NoBody EXCEPT !.messages = messages]
    IN  IF threaded /\ "bad" \in {ctx.thread_id.kind, ctx.parent_message_id.kind}
        THEN [outcome |-> "raised", error |-> "Cortex agent invocation failed",
              sent |-> FALSE, body |-> NoBody, result |-> NoResult]
        ELSE IF post.kind = "http_error"
        THEN [outcome |-> "raised", error |-> "Failed to invoke Cortex agent",
              sent |-> TRUE, body |-> body, result |-> NoResult]
        ELSE [outcome |-> "returned", error |-> "",
              sent |-> TRUE, body |-> body,
              result |-> [response |-> IF post.text = "" THEN NoTextParsed
                                       ELSE post.text,
                          agent_name |-> agent_name,
                          session_id |-> session_id,
                          trulens_eval |-> trulens_eval(trulens)]]

\* the conversation handed over as context["history"]: none, two turns, the
\* same with the current query as its last turn, and one with a system turn
GatewayQuery == "and by product?"
Histories ==
    {<<>>,
     <<Message("user", "sales by region"), Message("assistant", "a table")>>,
     <<Message("user", "sales by region"), Message("assistant", "a table"),
       Message("user", GatewayQuery)>>,
     <<Message("system", "be brief"), Message("user", "sales by region")>>,
     <<Message("user", GatewayQuery), NonText("assistant"),
       Message("assistant", GatewayQuery)>>,
     <<Message("assistant", "a table"), NonText("user"),
       Message("user", GatewayQuery), Message("tool", "rows")>>}

Ids == {NoId, IntId(0), IntId(7), TextId(7), BadId}

Contexts == [history : Histories, thread_id : Ids, parent_message_id : Ids]

Posts == {[kind |-> "ok", text |-> "by product: ..."],
          [kind |-> "ok", text |-> ""],
          [kind |-> "http_error", text |-> ""]}

TruLensOutcomes == {"disabled", "logged", "evaluated", "not_evaluated", "raised"}

NoInvocation ==
    [op |-> "none", agent_name |-> "", query |-> "",
     ctx |-> [history |-> <<>>, thread_id |-> NoId, parent_message_id |-> NoId],
     post |-> [kind |-> "ok", text |-> ""], trulens |-> "disabled",
     reply |-> [outcome |-> "none", error |-> "", sent |-> FALSE,
                body |-> NoBody, result |-> NoResult]]

\* one call of agent_gateway.invoke_agent
GatewayInvoke(ctx, post, trulens) ==
    /\ core' = [op |-> "invoke_agent", agent_name |-> "ANALYST_AGENT",
                query |-> GatewayQuery, ctx |-> ctx, post |-> post,
                trulens |-> trulens,
                reply |-> invoke_agent("ANALYST_AGENT", GatewayQuery,
                                       GraphSession, ctx, post, trulens)]
    /\ OrchFrame

GatewayInit ==
    /\ now = 0 /\ ticks = 0
    /\ memory = NoBucket /\ heap = <<>>
    /\ ttl_arg = NoBucket
    /\ lt_memory = NoBucket
    /\ ret = NoRead
    /\ pc = "idle" /\ state = Idle /\ env = Idle /\ loc = Idle
    /\ states = NoBucket /\ issued = <<>> /\ pol = Idle
    /\ settings = AllConfigured
    /\ core = NoInvocation

GatewayNext ==
    \E ctx \in Contexts, post \in Posts, t \in TruLensOutcomes :
        GatewayInvoke(ctx, post, t)

SpecGateway == GatewayInit /\ [][GatewayNext]_vars

-----------------------------------------------------------------------------
(* Best-effort side effects: the Langfuse report of log_observability, the *)
(* TruLens report of the gateway client and the cache write of             *)
(* OptimizedRouterPolicy.decide, each of which may fail.                   *)

\* the states the graph hands to log_observability
ObservedStates ==
    {[InitialState EXCEPT !.status = "processing", !.current_step = c] :
        c \in {"update_memory", "combine_responses"}}

\* one call of log_observability on the state st
Observe(st, logged) ==
    /\ state' = logged_state(st, logged)
    /\ loc' = [node |-> "log_observability", logged |-> logged]
    /\ UNCHANGED <<now, ticks, memory, lt_memory, heap, ret, pc, env,
                   states, issued, pol, settings, ttl_arg, core>>

\* the gateway calls made here: no thread, two turns of history
PlainContexts ==
    {x \in Contexts : /\ x.thread_id = NoId /\ x.parent_message_id = NoId
                      /\ Len(x.history) = 2}

BestEffortInit ==
    /\ now = 0 /\ ticks = 0
    /\ memory = NoBucket /\ heap = <<>>
    /\ ttl_arg = NoBucket
    /\ lt_memory = NoBucket
    /\ ret = NoRead
    /\ pc = "idle" /\ state = InitialState /\ env = Idle
    /\ loc = [node |-> "idle", logged |-> TRUE]
    /\ states = NoBucket /\ issued = <<>> /\ pol = NoCall
    /\ settings \in {AllConfigured, NoneConfigured}
    /\ core = NoInvocation

BestEffortNext ==
    \/ \E st \in ObservedStates, logged \in BOOLEAN : Observe(st, logged)
    \/ \E x \in PlainContexts, post \in Posts, t \in TruLensOutcomes :
          GatewayInvoke(x, post, t)
    \/ \E c \in FewCalls, stored \in BOOLEAN : OptimizedDecideWith(TRUE, c, stored)

SpecBestEffort == BestEffortInit /\ [][BestEffortNext]_vars

\* C17: a failure of the Langfuse report leaves log_observability ending
\* with status completed; a failure of the TruLens report or evaluation
\* leaves invoke_agent returning the response of the Run API under the agent
\* and session it was called for; a failure of the cache write leaves decide
\* returning the decision the router gave.
C17_SideEffectFailuresHarmless ==
    /\ (loc.node = "log_observability" /\ ~loc.logged)
       => state.status = "completed"
    /\ (/\ core.op = "invoke_agent"
        /\ core.post.kind = "ok"
        /\ core.trulens \in {"not_evaluated", "raised"})
       => /\ core.reply.outcome = "returned"
          /\ core.reply.result.response
                = (IF core.post.text = "" THEN NoTextParsed ELSE core.post.text)
          /\ core.reply.result.agent_name = core.agent_name
          /\ core.reply.result.session_id = GraphSession
    /\ ret.op = "store_failed"
       => /\ pol.path = "routed"
          /\ pol.decision = ret.decision

\* C17 witness: the Langfuse report, the TruLens report and a cache write
\* have each failed, and each primary operation has given its result.
C17_Witness ==
    /\ loc.node = "log_observability" /\ ~loc.logged
    /\ state.status = "completed"
    /\ core.op = "invoke_agent" /\ core.trulens = "raised"
    /\ core.reply.outcome = "returned"
    /\ ret.op = "store_failed"
    /\ pol.path = "routed"

-----------------------------------------------------------------------------
(* invoke_agents await by await: the node posts to the gateway for one     *)
(* agent, awaits the answer, appends it, and only then posts for the next. *)
(* The node is applied to states whose routing decision names up to        *)
(* MaxCalls agents.                                                        *)

MaxCalls == 3

\* the agents_to_call lists handed to the node
CallLists ==
    UNION {[1 .. n -> {"ANALYST_AGENT", "SEARCH_AGENT"}] : n \in 0 .. MaxCalls}

\* what one POST to the gateway does: a JSON object (which may carry an
\* agent_name of its own), an HTTP failure, or a body that is no object
PostOutcomes == {"gateway", "fallback", "not_mapping"}

NoLoop == [node |-> "idle", calls |-> <<>>, responses |-> <<>>, in_flight |-> 0]

\* a request reaches the node with the routing decision `names`
InvokeStart(names) ==
    /\ pc \in {"idle", "done"}
    /\ state' = [InitialState EXCEPT
                    !.status = "processing",
                    !.routing_decision =
                        [present |-> TRUE, agents_to_call |-> names,
                         routing_reason |-> <<"Executor">>,
                         confidence |-> executor_confidence]]
    /\ env' = [NoLoop EXCEPT !.node = "invoke_agents"]
    /\ pc' = "invoke_agents"
    /\ UNCHANGED <<memory, heap, ret>>
    /\ GraphFrame

\* lines 229-235 and the head of the loop: the guard, then the next POST
InvokePost ==
    /\ pc = "invoke_agents"
    /\ LET names == agents_to_invoke(state.routing_decision)
           i     == Len(env.responses) + 1
       IN  IF ~invocable(state.routing_decision)
           THEN /\ state' = [state EXCEPT !.status = "failed",
                                           !.error = "Agent invocation failed",
                                           !.current_step = "invoke_agents_error"]
                /\ pc' = "done"
                /\ UNCHANGED env
           ELSE /\ env' = [env EXCEPT !.calls = Append(@, names[i]),
                                      !.in_flight = @ + 1]
                /\ pc' = "awaiting"
                /\ UNCHANGED state
    /\ UNCHANGED <<memory, heap, ret>>
    /\ GraphFrame

\* _invoke_snowflake_agent returns; after the last agent the responses are
\* put in the state
InvokeReply(outcome) ==
    /\ pc = "awaiting"
    /\ LET names == agents_to_invoke(state.routing_decision)
           i     == Len(env.responses) + 1
           rs    == Append(env.responses,
                           agent_response(names[i], state.agent_query,
                               IF outcome = "gateway" THEN "gateway"
                               ELSE "fallback"))
       IN  /\ env' = [env EXCEPT !.responses = rs, !.in_flight = @ - 1]
           /\ IF i < Len(names)
              THEN pc' = "invoke_agents" /\ UNCHANGED state
              ELSE /\ pc' = "done"
                   /\ state' = [state EXCEPT !.agent_responses = rs,
                                              !.current_step = "invoke_agents"]
    /\ UNCHANGED <<memory, heap, ret>>
    /\ GraphFrame

InvokeInit ==
    /\ now = 0 /\ ticks = 0
    /\ memory = NoBucket /\ heap = <<>>
    /\ ttl_arg = NoBucket /\ core = Idle
    /\ lt_memory = NoBucket
    /\ ret = NoRead
    /\ pc = "idle" /\ state = InitialState /\ env = NoLoop /\ loc = Idle
    /\ states = NoBucket /\ issued = <<>> /\ pol = Idle
    /\ settings = AllConfigured

InvokeNext ==
    \/ \E names \in CallLists : InvokeStart(names)
    \/ InvokePost
    \/ \E o \in PostOutcomes : InvokeReply(o)

SpecInvoke == InvokeInit /\ [][InvokeNext]_vars

\* the first n elements of s
Prefix(s, n) == SubSeq(s, 1, n)

\* C18: during one pass of invoke_agents at most one gateway call is in
\* flight, the calls made so far are the leading agents of agents_to_call in
\* that order, each answered before the next is made, and when the pass ends
\* without failure agent_responses is as long as agents_to_call with
\* agent_responses[i].agent_name = agents_to_call[i], fallback answers
\* included.
C18_SequentialInOrder ==
    LET names == agents_to_invoke(state.routing_decision)
    IN  env.node = "invoke_agents"
        => /\ env.in_flight \in {0, 1}
           /\ Len(env.calls) <= Len(names)
           /\ env.calls = Prefix(names, Len(env.calls))
           /\ Len(env.calls) = Len(env.responses) + env.in_flight
           /\ \A i \in DOMAIN env.responses :
                 env.responses[i].agent_name = names[i]
           /\ (pc = "done" /\ state.status # "failed")
              => /\ Len(state.agent_responses) = Len(names)
                 /\ \A i \in DOMAIN names :
                       state.agent_responses[i].agent_name = names[i]

\* C18 witness: a pass for the search agent and then the analyst agent has
\* ended, the first answered by the fallback and the second by the gateway.
C18_Witness ==
    /\ pc = "done" /\ env.node = "invoke_agents"
    /\ state.routing_decision.agents_to_call = <<"SEARCH_AGENT", "ANALYST_AGENT">>
    /\ Len(state.agent_responses) = 2
    /\ state.agent_responses[1].response[1].via = "fallback"
    /\ state.agent_responses[2].response[1].via = "gateway"

-----------------------------------------------------------------------------
\* a planner reply whose plan is missing, empty or no mapping, given bare
\* or under the key "plan"
invalid_plan(r) ==
    \/ r.kind = "not_mapping"
    \/ r.kind = "bare" /\ r.plan = NoPlan
    \/ r.kind = "wrapped" /\ r.inner \in {"empty", "null", "text"}

\* C19: when the planner's reply carries a missing, empty or non-mapping
\* plan, bare or under the key "plan", plan_request sets status failed with
\* a "Planning failed" error, stores no plan in the state or in short-term
\* memory, and the graph goes to handle_error, not to the executor.
C19_InvalidPlanFailsPlanning ==
    [][\A r \in PlannerReplies :
          (plan_request(r) /\ invalid_plan(r))
          => /\ state'.status = "failed"
             /\ state'.error = "Planning failed"
             /\ state'.plan = state.plan
             /\ memory' = memory
             /\ pc' = "handle_error"]_vars

-----------------------------------------------------------------------------
\* C20: a request body that invoke_agent sends carries only the current
\* user message together with thread_id and parent_message_id as integers
\* exactly when the context gives both of them; in every other case it
\* carries the converted history followed by the current query, and no
\* thread fields.
C20_ThreadModeExactlyWhenBothGiven ==
    (core.op = "invoke_agent" /\ core.reply.sent)
    => IF given(core.ctx.thread_id) /\ given(core.ctx.parent_message_id)
       THEN /\ core.reply.body.threaded
            /\ core.reply.body.messages = <<SfMessage("user", core.query)>>
            /\ core.reply.body.thread_id = core.ctx.thread_id.n
            /\ core.reply.body.parent_message_id = core.ctx.parent_message_id.n
       ELSE /\ ~core.reply.body.threaded
            /\ core.reply.body.messages
                  = build_messages(core.query, core.ctx.history)

-----------------------------------------------------------------------------
\* the user and assistant text entries of a history, converted, in order
RECURSIVE Converted(_)
Converted(h) ==
    IF h = <<>> THEN <<>>
    ELSE (IF Head(h).role \in {"user", "assistant"} /\ is_str_content(Head(h))
          THEN <<SfMessage(Head(h).role, Head(h).content)>>
          ELSE <<>>) \o Converted(Tail(h))

\* the gateway built its messages from the history (no thread in use)
BuiltFromHistory ==
    /\ core.op = "invoke_agent" /\ core.reply.sent
    /\ ~truthy_id(core.ctx.thread_id)
    /\ ~(given(core.ctx.thread_id) /\ given(core.ctx.parent_message_id))

\* C21: _build_messages returns the history's user and assistant text
\* entries in their order, followed by one user message with the query
\* unless the last converted entry already is that message; the result ends
\* with a user message whose text is the query and is at most one longer
\* than the history.
C21_BuildMessages ==
    BuiltFromHistory
    => LET r == core.reply.body.messages
           c == Converted(core.ctx.history)
           q == SfMessage("user", core.query)
       IN  /\ r = IF c # <<>> /\ c[Len(c)] = q THEN c ELSE Append(c, q)
           /\ r[Len(r)] = q
           /\ Len(r) <= Len(core.ctx.history) + 1

\* C21 witness: a history of three turns that ends with the query was sent
\* as three messages.
C21_Witness ==
    /\ BuiltFromHistory
    /\ Len(core.ctx.history) = 3
    /\ core.ctx.history[3] = Message("user", core.query)
    /\ Len(core.reply.body.messages) = 3

-----------------------------------------------------------------------------
\* C22: between two runs of plan_request the plan's steps are executed in
\* increasing order from step 1 and none twice: the pass after plan_request
\* is on step 1, and when advance_plan sends the graph back to execute_plan
\* the step has moved on by one.
C22_StepsOnceInOrder ==
    [][/\ (pc = "plan_request" /\ pc' = "execute_plan")
          => step_index(state') = 1
       /\ (pc = "advance_plan" /\ pc' = "execute_plan")
          => step_index(state') = step_index(state) + 1]_vars

\* C23: a replan requested at step k keeps the step: when plan_request has
\* produced the revised plan, the execute_plan pass that follows is on
\* step k.
C23_ReplanKeepsStep ==
    [][(pc = "plan_request" /\ state.replan_flag /\ pc' = "execute_plan")
          => step_index(state') = step_index(state)]_vars

-----------------------------------------------------------------------------
\* C24: replanning is not bounded by the engine: replan_attempts of a step
\* never decreases, and a replan the executor asks for is taken whatever
\* the step's count is, MAX_REPLANS and beyond: the count goes up by one and
\* the request goes on unfailed.
C24_ReplanNeverRefused ==
    [][/\ \A k \in 1 .. MaxSteps :
             state'.replan_attempts[k] >= state.replan_attempts[k]
       /\ \A r \in ExecutorReplies :
             (/\ execute_plan(r)
              /\ r.kind = "json" /\ r.replan /\ has_agent_step(state))
             => /\ state'.replan_flag
                /\ state'.status # "failed"
                /\ state'.replan_attempts[step_index(state)]
                      = state.replan_attempts[step_index(state)] + 1
                /\ pc' = "invoke_agents"]_vars

\* C24 witness: a step has been replanned more than MAX_REPLANS times and
\* the request is on its way back to the planner.
C24_Witness ==
    /\ pc = "plan_request" /\ state.status = "processing"
    /\ \E k \in 1 .. MaxSteps : state.replan_attempts[k] > MAX_REPLANS

-----------------------------------------------------------------------------
(* Two requests on one session, each served by the legacy supervisor's     *)
(* process_request as a coroutine of its own.  The coroutines run on one   *)
(* event loop: a step is the code between two awaits, and the steps of the *)
(* two requests interleave freely.  pc and loc hold one entry per request. *)

Procs == {1, 2}
SessQuery == <<"first question", "second question">>

\* the requests: without a preference (confidence 0.5) or with one
\* (confidence 1.0)
SessRequests(p) ==
    {[query |-> SessQuery[p], agent_preference |-> pr, analyst_matches |-> 0,
      search_matches |-> 0, data_type |-> ""] : pr \in {"", "analyst please"}}

InFlight(p) == pc[p] \notin {"idle", "returned", "raised"}

\* the list object short-term memory holds under key history, 0 when none
StoredHistory ==
    IF HasKey(memory, GraphSession, "history")
    THEN memory[GraphSession]["history"].value ELSE 0

NoLocals ==
    [request |-> [query |-> "", agent_preference |-> "", analyst_matches |-> 0,
                  search_matches |-> 0, data_type |-> ""],
     history |-> 0, seen |-> 0, stores |-> 0, overlapped |-> FALSE,
     routing_decision |-> NoDecision, pending |-> <<>>, agent_responses |-> <<>>]

SessFrame ==
    UNCHANGED <<now, ticks, ret, state, issued, pol, settings, ttl_arg, core>>

\* lines 53-82 for request p: read the history, append the user message, get
\* or create the state and mark it processing; then await the routing prompt
SessStart(p, r) ==
    /\ pc[p] = "idle"
    /\ LET s     == GraphSession
           found == /\ retrieve_found(memory, s, "history", now)
                    /\ heap[memory[s]["history"].value] # <<>>
           obj   == IF found THEN memory[s]["history"].value ELSE Len(heap) + 1
           new   == Append(IF found THEN heap[obj] ELSE <<>>,
                           Message("user", r.query))
           busy  == \E q \in Procs \ {p} : InFlight(q)
       IN  /\ heap' = IF found THEN [heap EXCEPT ![obj] = new]
                               ELSE Append(heap, new)
           /\ memory' = retrieve_mem(memory, s, "history", now)
           /\ states' = update_state(get_or_create_state(states, s), s,
                           [status |-> "processing", current_step |-> "routing"])
           /\ loc' = [q \in Procs |->
                        IF q = p
                        THEN [NoLocals EXCEPT !.request = r, !.history = obj,
                                              !.seen = StoredHistory,
                                              !.overlapped = busy]
                        ELSE [loc[q] EXCEPT !.overlapped = @ \/ InFlight(q)]]
    /\ pc' = [pc EXCEPT ![p] = "get_prompt_for_routing"]
    /\ env' = [env EXCEPT !.proc = p]
    /\ UNCHANGED lt_memory
    /\ SessFrame

\* lines 88-143 for request p: route, record the decision, last_query and
\* the bounded history, snapshot the memory, start invoking the agents
SessRoute(p) ==
    /\ pc[p] = "get_prompt_for_routing"
    /\ LET s   == GraphSession
           r   == loc[p].request
           res == route_request(settings, r.agent_preference, r.analyst_matches,
                                r.search_matches, r.data_type)
       IN  IF res.raised
           THEN /\ states' = except_failed(states, s, "AgentRoutingError")
                /\ pc' = [pc EXCEPT ![p] = "raised"]
                /\ env' = [env EXCEPT !.proc = p, !.ended = p]
                /\ UNCHANGED <<memory, heap, loc>>
           ELSE LET dec == res.decision
                    m1 == store(memory, s, "last_query", r.query, NoneTTL, now)
                    m2 == store(m1, s, "routing_decision", dec, NoneTTL, now)
                    m3 == store(m2, s, "history", Len(heap) + 1, NoneTTL, now)
                IN  /\ heap' = Append(heap, Window(heap[loc[p].history]))
                    /\ memory' = clean_expired(m3, s, now)
                    /\ loc' = [loc EXCEPT ![p].routing_decision = dec,
                                          ![p].pending = dec.agents_to_call,
                                          ![p].seen = Len(heap) + 1,
                                          ![p].stores = @ + 1]
                    /\ states' = update_state(states, s,
                                    [routing_reason |-> dec.routing_reason,
                                     current_step |-> "agent_invocation"])
                    /\ pc' = [pc EXCEPT ![p] = "_invoke_snowflake_agent"]
                    /\ env' = [env EXCEPT !.proc = p, !.writer = p]
    /\ UNCHANGED lt_memory
    /\ SessFrame

\* lines 146-205 for request p: a gateway call has returned; after the last
\* one the assistant turn is appended and the history stored, the state is
\* set completed and the long-term pattern written for a confident decision
SessInvoke(p, outcome) ==
    /\ pc[p] = "_invoke_snowflake_agent"
    /\ LET s    == GraphSession
           d    == loc[p].routing_decision
           a    == Head(loc[p].pending)
           rs   == Append(loc[p].agent_responses,
                          [agent_name |-> IF outcome = "gateway" THEN a ELSE "agent",
                           response |-> <<a, outcome>>])
           msgs == Append(heap[loc[p].history],
                          Message("assistant", legacy_combined(rs)))
           done == update_state(states, s,
                      [status |-> "completed", current_step |-> "completed",
                       final_response |-> legacy_combined(rs)])
       IN  IF Tail(loc[p].pending) # <<>>
           THEN /\ loc' = [loc EXCEPT ![p].pending = Tail(@),
                                      ![p].agent_responses = rs]
                /\ env' = [env EXCEPT !.proc = p]
                /\ UNCHANGED <<pc, memory, heap, states>>
           ELSE /\ heap' = Append([heap EXCEPT ![loc[p].history] = msgs],
                                  Window(msgs))
                /\ memory' = store(memory, s, "history", Len(heap) + 1,
                                   NoneTTL, now)
                /\ loc' = [loc EXCEPT ![p].pending = Tail(@),
                                      ![p].agent_responses = rs,
                                      ![p].seen = Len(heap) + 1,
                                      ![p].stores = @ + 1]
                /\ IF confident(d) /\ "selected_agent" \notin DOMAIN d
                   THEN /\ states' = except_failed(done, s, "KeyError")
                        /\ pc' = [pc EXCEPT ![p] = "raised"]
                        /\ env' = [env EXCEPT !.proc = p, !.writer = p,
                                              !.ended = p]
                   ELSE /\ states' = done
                        /\ pc' = [pc EXCEPT ![p] = "log_supervisor_decision"]
                        /\ env' = [env EXCEPT !.proc = p, !.writer = p]
    /\ UNCHANGED lt_memory
    /\ SessFrame

\* lines 207-225 for request p: the decision is logged, the result returned
SessLog(p) ==
    /\ pc[p] = "log_supervisor_decision"
    /\ pc' = [pc EXCEPT ![p] = "returned"]
    /\ env' = [env EXCEPT !.proc = p, !.ended = p]
    /\ UNCHANGED <<memory, heap, lt_memory, loc, states>>
    /\ SessFrame

SessInit ==
    /\ now = 0 /\ ticks = 0
    /\ \E n \in InitHistoryLens :
          IF n = 0
          THEN memory = NoBucket /\ heap = <<>>
          ELSE /\ memory = store(NoBucket, GraphSession, "history", 1, NoneTTL, 0)
               /\ heap = <<History(n)>>
    /\ ttl_arg = NoBucket /\ core = Idle
    /\ lt_memory = NoBucket
    /\ ret = NoRead
    /\ pc = [p \in Procs |-> "idle"]
    /\ loc = [p \in Procs |-> NoLocals]
    /\ state = InitialState
    /\ env = [node |-> "process_request", proc |-> 0, writer |-> 0, ended |-> 0]
    /\ states = NoBucket /\ issued = <<>> /\ pol = Idle
    /\ settings \in {AllConfigured, NoneConfigured}
    /\ memory # NoBucket => ~unconfigured(settings)

SessNext ==
    \E p \in Procs :
        \/ \E r \in SessRequests(p) : SessStart(p, r)
        \/ SessRoute(p)
        \/ \E o \in {"gateway", "fallback"} : SessInvoke(p, o)
        \/ SessLog(p)

SpecSession == SessInit /\ [][SessNext]_vars

\* every request has ended
AllEnded == \A p \in Procs : pc[p] \in {"returned", "raised"}

\* the last min(n, max_history) elements of a list
LastOf(msgs) ==
    [i \in 1 .. (IF Len(msgs) < max_history THEN Len(msgs) ELSE max_history) |->
        msgs[i + (IF Len(msgs) < max_history THEN 0 ELSE Len(msgs) - max_history)]]

\* C25: requests on one session exclude each other nowhere, and the last
\* writer wins: when the requests have ended and each of them stored its
\* history, short-term memory holds the last max_history messages of the
\* list of the request that stored last, nothing of the other's list being
\* merged into it.
C25_LastWriterWins ==
    (AllEnded /\ \A p \in Procs : loc[p].stores > 0)
    => /\ env.writer \in Procs
       /\ heap[StoredHistory] = LastOf(heap[loc[env.writer].history])

\* C25 witness: two requests overlapped and both returned, and the history
\* left in memory lacks the user turn of the one that did not store last.
C25_Witness ==
    /\ \A p \in Procs : pc[p] = "returned" /\ loc[p].overlapped
    /\ \E p \in Procs \ {env.writer} :
          \A i \in DOMAIN heap[StoredHistory] :
              heap[StoredHistory][i] # Message("user", SessQuery[p])

-----------------------------------------------------------------------------
\* C26: no await lies between a read of shared state and the write that
\* belongs to it, so no other request's write to the key lands between the
\* two: when a request stores the history for the first time, short-term
\* memory still holds under key history what the request found when it
\* loaded the history.
C26_NoWriteBetweenReadAndWrite ==
    [][\A p \in Procs :
          (loc[p].stores = 0 /\ loc'[p].stores = 1)
          => StoredHistory = loc[p].seen]_vars

-----------------------------------------------------------------------------
\* the calls of the orchestrator's process_request that have counted
\* requests.total and have not ended
OrchInFlight ==
    {r \in OrchRequests :
        core.reqs[r].pc \in {"_get_orchestrator_prompt", "_invoke_langgraph"}}

\* C27: requests.total minus (requests.success + requests.error) is the
\* number of process_request calls that have counted requests.total and not
\* yet ended; when every call has ended, requests.total = requests.success
\* + requests.error.
C27_CountersBalance ==
    /\ core.counters["requests.total"]
          - (core.counters["requests.success"] + core.counters["requests.error"])
       = Cardinality(OrchInFlight)
    /\ OrchInFlight = {}
       => core.counters["requests.total"]
             = core.counters["requests.success"] + core.counters["requests.error"]

\* C27 witness: one call has returned and one has raised while the others
\* have not started: two counted, one success, one error.
C27_Witness ==
    /\ OrchInFlight = {}
    /\ core.counters["requests.total"] = 2
    /\ core.counters["requests.success"] = 1
    /\ core.counters["requests.error"] = 1

-----------------------------------------------------------------------------
\* request p ends in this step
Ends(p) == InFlight(p) /\ pc'[p] \in {"returned", "raised"}

\* C28: when process_request ends, the session's tracked status
\* is completed if the call returns and failed, with the error recorded, if
\* it raises.
C28_StatusMatchesOutcome ==
    [][\A p \in Procs :
          Ends(p)
          => /\ pc'[p] = "returned"
                => states'[GraphSession].status = "completed"
             /\ pc'[p] = "raised"
                => /\ states'[GraphSession].status = "failed"
                   /\ states'[GraphSession].error # ""]_vars

-----------------------------------------------------------------------------
(* _post_sse: the gateway reads the answer of an SSE endpoint line by      *)
(* line.  A text is a sequence of characters; a JSON value is a record     *)
(* named after its Python type.                                            *)

MaxLines == 3

Whitespace == {" "}

JStr(chars)  == [str |-> chars]
JDict(items) == [dict |-> items]
JNum         == [num |-> 0]
JList        == [list |-> 0]

is_str(v)  == "str" \in DOMAIN v
is_dict(v) == "dict" \in DOMAIN v
has(v, key) == key \in DOMAIN v.dict

\* a line of the stream: empty, a line that does not start with "data:",
\* or "data:" followed by a payload; the payload is given as it is after
\* .strip(): the sentinel, a text json.loads rejects, or the text of a
\* JSON value
BlankLine == [kind |-> "blank"]
FieldLine == [kind |-> "field"]
DataLine(payload) == [kind |-> "data", data |-> payload]
DoneSentinel == [k |-> "[DONE]"]
NotJson      == [k |-> "invalid"]
JsonText(v)  == [k |-> "json", obj |-> v]

SseLines ==
    {BlankLine, FieldLine, DataLine(DoneSentinel), DataLine(NotJson),
     DataLine(JsonText(JDict([text |-> JStr(<<" ", "a">>)]))),
     DataLine(JsonText(JDict([response |-> JDict([text |-> JStr(<<"b">>)])]))),
     DataLine(JsonText(JDict([response |->
         JDict([text |-> JDict([delta |-> JStr(<<"c", " ">>)])])]))),
     DataLine(JsonText(JDict([text |-> JStr(<<"a">>),
                              response |-> JDict([text |-> JStr(<<"b">>)])]))),
     DataLine(JsonText(JDict([text |-> JNum, status |-> JStr(<<"a">>)]))),
     DataLine(JsonText(JList))}

SseStreams == UNION {[1 .. n -> SseLines] : n \in 0 .. MaxLines}

\* "".join(parts)
RECURSIVE join(_)
join(parts) ==
    IF parts = <<>> THEN <<>> ELSE Head(parts) \o join(Tail(parts))

RECURSIVE lstrip(_)
lstrip(chars) ==
    IF chars # <<>> /\ Head(chars) \in Whitespace
    THEN lstrip(Tail(chars)) ELSE chars

RECURSIVE rstrip(_)
rstrip(chars) ==
    IF chars # <<>> /\ chars[Len(chars)] \in Whitespace
    THEN rstrip(SubSeq(chars, 1, Len(chars) - 1)) ELSE chars

unstripped(chars) == chars

\* str.strip()
stripped(chars) == rstrip(lstrip(chars))

\* lines 199-211: the text deltas one parsed event adds to text_parts
text_deltas(obj) ==
    IF ~is_dict(obj) THEN <<>>
    ELSE (IF has(obj, "text") /\ is_str(obj.dict.text)
          THEN <<obj.dict.text.str>> ELSE <<>>)
         \o
         (IF has(obj, "response") /\ is_dict(obj.dict.response)
          THEN LET r == obj.dict.response
               IN  (IF has(r, "text") /\ is_str(r.dict.text)
                    THEN <<r.dict.text.str>> ELSE <<>>)
                   \o
                   (IF /\ has(r, "text") /\ is_dict(r.dict.text)
                       /\ has(r.dict.text, "delta")
                       /\ is_str(r.dict.text.dict.delta)
                    THEN <<r.dict.text.dict.delta.str>> ELSE <<>>)
          ELSE <<>>)

NoStream == [node |-> "idle", lines |-> <<>>, read |-> 0,
             events |-> <<>>, text_parts |-> <<>>]

SseFrame ==
    UNCHANGED <<now, ticks, memory, lt_memory, heap, state, loc, states,
                issued, pol, settings, ttl_arg, core>>

\* one turn of `async for line in resp.aiter_lines()`
SseLine ==
    /\ pc = "aiter_lines"
    /\ env.read < Len(env.lines)
    /\ LET line == env.lines[env.read + 1]
           next == [env EXCEPT !.read = @ + 1]
       IN  IF line.kind = "blank" THEN env' = next /\ pc' = pc
           ELSE IF line.kind # "data" THEN env' = next /\ pc' = pc
           ELSE IF line.data = DoneSentinel THEN env' = next /\ pc' = "break"
           ELSE IF line.data = NotJson THEN env' = next /\ pc' = pc
           ELSE /\ env' = [next EXCEPT
                              !.events = Append(@, line.data.obj),
                              !.text_parts = @ \o text_deltas(line.data.obj)]
                /\ pc' = pc
    /\ UNCHANGED ret
    /\ SseFrame

\* line 215, after the stream ended or the loop was left
SseReturn ==
    /\ \/ pc = "aiter_lines" /\ env.read = Len(env.lines)
       \/ pc = "break"
    /\ ret' = [op |-> "_post_sse", text |-> stripped(join(env.text_parts)),
               events |-> env.events]
    /\ pc' = "returned"
    /\ UNCHANGED env
    /\ SseFrame

SseInit ==
    /\ now = 0 /\ ticks = 0
    /\ memory = NoBucket /\ heap = <<>>
    /\ ttl_arg = NoBucket /\ core = Idle
    /\ lt_memory = NoBucket
    /\ ret = NoRead
    /\ pc = "aiter_lines" /\ state = InitialState /\ loc = Idle
    /\ \E lines \in SseStreams :
          env = [NoStream EXCEPT !.node = "_post_sse", !.lines = lines]
    /\ states = NoBucket /\ issued = <<>> /\ pol = Idle
    /\ settings = AllConfigured

SseNext == SseLine \/ SseReturn

SpecSse == SseInit /\ [][SseNext]_vars

\* the lines before the first "data: [DONE]"
RECURSIVE BeforeDone(_)
BeforeDone(lines) ==
    IF lines = <<>> \/ Head(lines) = DataLine(DoneSentinel) THEN <<>>
    ELSE <<Head(lines)>> \o BeforeDone(Tail(lines))

IsEvent(line) == line.kind = "data" /\ line.data.k = "json"

\* the JSON values of the data: events before the first [DONE], in order
RECURSIVE EventsOf(_)
EventsOf(lines) ==
    IF lines = <<>> THEN <<>>
    ELSE (IF IsEvent(Head(lines)) THEN <<Head(lines).data.obj>> ELSE <<>>)
         \o EventsOf(Tail(lines))

\* the text fragments of a list of events, in order
RECURSIVE FragmentsOf(_)
FragmentsOf(events) ==
    IF events = <<>> THEN <<>>
    ELSE text_deltas(Head(events)) \o FragmentsOf(Tail(events))

ReceivedEvents == EventsOf(BeforeDone(env.lines))

\* chars from its first to its last character that is no white space
Trimmed(chars) ==
    LET inked == {i \in DOMAIN chars : chars[i] \notin Whitespace}
    IN  IF inked = {} THEN <<>>
        ELSE SubSeq(chars, CHOOSE i \in inked : \A j \in inked : i <= j,
                           CHOOSE i \in inked : \A j \in inked : i >= j)

SseReturned == env.node = "_post_sse" /\ pc = "returned"

\* C29 as stated: the returned text is the in-order concatenation of the
\* text fragments of the data: events before the first [DONE], and the
\* event list holds exactly those events.
C29_TextIsConcatenation ==
    SseReturned
    => /\ ret.text = join(FragmentsOf(ReceivedEvents))
       /\ ret.events = ReceivedEvents

\* C29: the returned text is the in-order concatenation of the text
\* fragments of the data: events before the first [DONE] with the white
\* space at its two ends removed; the event list holds exactly those
\* events; no line after the first [DONE] is read; and lines that are
\* empty, do not start with data: or carry no valid JSON add nothing to
\* either.
C29_TextIsStrippedConcatenation ==
    /\ env.node = "_post_sse"
       => /\ env.read <= Len(BeforeDone(env.lines)) + 1
          /\ env.read <= Len(env.lines)
          /\ (env.read > 0 /\ pc = "aiter_lines"
                /\ ~IsEvent(env.lines[env.read]))
             => /\ env.events = EventsOf(SubSeq(env.lines, 1, env.read - 1))
                /\ env.text_parts =
                      FragmentsOf(EventsOf(SubSeq(env.lines, 1, env.read - 1)))
    /\ SseReturned
       => /\ ret.text = Trimmed(join(FragmentsOf(ReceivedEvents)))
          /\ ret.events = ReceivedEvents

\* C29 witness: a stream with a fragment that starts with a blank, then
\* [DONE], then another event has been read; the answer is the fragment
\* without the blank and the event list holds the first event only.
C29_Witness ==
    /\ SseReturned
    /\ Len(env.lines) = 3
    /\ env.lines[1] = DataLine(JsonText(JDict([text |-> JStr(<<" ", "a">>)])))
    /\ env.lines[2] = DataLine(DoneSentinel)
    /\ IsEvent(env.lines[3])
    /\ ret.text = <<"a">>
    /\ Len(ret.events) = 1

-----------------------------------------------------------------------------
\* what a response says, whatever label the combination puts on it
Said(part) == [agent |-> part.agent, q |-> part.q, via |-> part.via]

\* C30: every pass replaces what the pass before left.  When invoke_agents
\* succeeds, agent_responses holds one response per agent of this pass's
\* call list, to this pass's agent query, and nothing else; when
\* combine_responses follows, final_response holds what exactly those
\* responses say and agent_responses is the one combined response.
C30_PassOverwrites ==
    [][/\ (pc = "invoke_agents" /\ pc' = "combine_responses")
          => LET names == agents_to_invoke(state.routing_decision)
             IN  /\ Len(state'.agent_responses) = Len(names)
                 /\ \A i \in DOMAIN names :
                       /\ state'.agent_responses[i].agent_name = names[i]
                       /\ Len(state'.agent_responses[i].response) = 1
                       /\ state'.agent_responses[i].response[1].q
                             = state.agent_query
       /\ (pc = "combine_responses" /\ pc' = "advance_plan")
          => /\ Len(state'.final_response) = Len(state.agent_responses)
             /\ \A i \in DOMAIN state.agent_responses :
                   Said(state'.final_response[i])
                      = Said(state.agent_responses[i].response[1])
             /\ Len(state'.agent_responses) = 1
             /\ state'.agent_responses[1].response = state'.final_response]_vars

\* C30 witness: the pass over step 2 has combined its responses after the
\* pass over step 1 did, and final_response holds the step-2 answer alone.
C30_Witness ==
    /\ pc = "advance_plan" /\ env.node = "combine_responses"
    /\ state.plan_current_step = 2
    /\ state.agent_query.step = 2
    /\ Len(state.final_response) = 1
    /\ state.final_response[1].q.step = 2
    /\ Len(state.agent_responses) = 1

====
